---- MODULE Spec2Model ----
(***************************************************************************)
(* OFAC SDN Global Risk Monitor: the risk aggregation engine.              *)
(*                                                                         *)
(* A table (pandas DataFrame) is a record                                  *)
(*   [columns |-> set of column names,                                     *)
(*    rows    |-> set of rows, each a function from "index" and the        *)
(*                column names to values,                                  *)
(*    dtype   |-> "object" or "category" (the dtype of the Country column),*)
(*    categories |-> the categories of Country when dtype = "category"].   *)
(* A missing value (NaN / None) is the value NaN.                          *)
(* Scores that the code holds as floats with decimals (Avg_Risk_Score) are *)
(* held in hundredths: 1.0 is 100, 1.67 is 167.                            *)
(***************************************************************************)
EXTENDS Integers, Sequences, FiniteSets, TLC

VARIABLES
    upload,          \* the table handed to the pipeline (df_override / the parsed sources)
    pandasObserved,  \* the installed pandas' default for groupby(observed=...)
    pc,              \* position of the request in the dashboard script
    master_df,       \* the master table returned by run_ofac_data_pipeline
    dash_master,     \* the dashboard's copy of it, Country made an ordered categorical
    metrics_df,      \* Country Metrics table
    aggregated_df,   \* third result of compute_kpis_kris inside the pipeline
    kpi_out,         \* result of compute_kpis_kris in the dashboard
    pv_pivot,        \* result of pivot_risk_visuals.prepare_pivot_data
    dp_pivot,        \* result of data_processor.prepare_pivot_data
    value,           \* input of a single apply_risk_rating call
    rating,          \* its result
    kpi_arg,         \* the table given to a direct call of compute_kpis_kris
    sources,         \* the three source files: sdn_file, add_file, map_file
    joined_df,       \* run_ofac_data_pipeline's master_df after the join on ent_num
    selected_countries,  \* sidebar: the country multiselect
    selected_programs,   \* sidebar: the program multiselect
    top_n_country,       \* sidebar: Top-N countries
    top_n_program,       \* sidebar: Top-N programs
    df_vis,              \* the filtered, truncated Country Metrics table of the main visuals
    top_countries,       \* Top-N country list for the pivot
    top_programs,        \* Top-N program list for the pivot
    chosen_countries,    \* countries the pivot is filtered on
    chosen_programs,     \* programs the pivot is filtered on
    filtered_master_df,  \* prepare_filtered_master's result
    top_n,               \* the Top-N selector of the interactive pivot table
    top_n_df,            \* the pivot table's first top_n rows by Total_SDNs
    avg_risk_score,      \* the mean score a score-to-label function is given
    labels,              \* the label each score-to-label function returned for it
    df_vis_again,        \* the filter and Top-N of the main visuals applied to df_vis
    pv_pivot_df,         \* the Program Pivot of the filtered master table (app.py 377)
    rendered,            \* the page elements the request has delivered so far
    heap,                \* the DataFrame objects of a direct call: identity -> table
    frame,               \* a direct call: function, argument and returned identities
    disk,                \* the default source files in the project folder
    session,             \* the sidebar's upload and 'use defaults' of the request
    cache,               \* st.cache_data of load_metrics: arguments -> returned value
    served               \* what load_metrics returned to the request

callVars == <<kpi_arg>>
sourceVars == <<sources, joined_df>>
filterVars == <<selected_countries, selected_programs, top_n_country, top_n_program,
                df_vis, top_countries, top_programs, chosen_countries, chosen_programs,
                filtered_master_df, top_n, top_n_df>>

labelVars == <<avg_risk_score, labels>>
idemVars == <<df_vis_again>>
requestVars == <<pv_pivot_df, rendered>>
frameVars == <<heap, frame>>
cacheVars == <<disk, session, cache, served>>
otherVars == <<labelVars, idemVars, requestVars, frameVars, cacheVars>>

vars == <<upload, pandasObserved, pc, master_df, dash_master, metrics_df, aggregated_df,
          kpi_out, pv_pivot, dp_pivot, value, rating, callVars, sourceVars, filterVars,
          otherVars>>

\* a result not computed yet
None == [none |-> TRUE]
\* no column / no rating
NoName == ""
NaN == "NaN"

----------------------------------------------------------------------------
(* Bounds of the model *)

\* how far past a tier threshold the entity identifiers of a large block go
Over == 1
\* largest entity identifier of a small block
MaxSmallEnt == 2
\* how far past the Critical threshold the counts given to apply_risk_rating go
MaxOverCritical == 99

----------------------------------------------------------------------------
(* config.py *)

Tiers == {"Low", "Medium Low", "Medium", "Medium High", "High", "Critical"}

RISK_COLOR_MAP ==
    ("Low" :> "#2E4A1E") @@ ("Medium Low" :> "#9ACD32") @@ ("Medium" :> "#FFFF00") @@
    ("Medium High" :> "#FFA500") @@ ("High" :> "#FF0000") @@ ("Critical" :> "#800080")

RISK_SCORE_MAP ==
    ("Low" :> 1) @@ ("Medium Low" :> 2) @@ ("Medium" :> 3) @@
    ("Medium High" :> 4) @@ ("High" :> 5) @@ ("Critical" :> 6)

\* Series.map(d): a value that is no key of d maps to NaN
MapDict(d, v) == IF v \in DOMAIN d THEN d[v] ELSE NaN

----------------------------------------------------------------------------
(* data_processor.py: constants *)

JOIN_COLUMN == "ent_num"
SDN_TYPE_COL == "SDN_Type"
COUNTRY_COL == "Country"
SDN_PROGRAM_COLUMN == "Sanctions Program"

----------------------------------------------------------------------------
(* data_processor.py: risk logic *)

\* a plausible slip: the Medium High bound typed as 700
apply_risk_rating_mut(v) ==
    IF v <= 200 THEN "Low"
    ELSE IF v <= 400 THEN "Medium Low"
    ELSE IF v <= 600 THEN "Medium"
    ELSE IF v <= 700 THEN "Medium High"
    ELSE IF v <= 1000 THEN "High"
    ELSE "Critical"

apply_risk_rating(v) ==
    IF v <= 200 THEN "Low"
    ELSE IF v <= 400 THEN "Medium Low"
    ELSE IF v <= 600 THEN "Medium"
    ELSE IF v <= 800 THEN "Medium High"
    ELSE IF v <= 1000 THEN "High"
    ELSE "Critical"

----------------------------------------------------------------------------
(* pandas helpers *)

\* a missing value in a float column (mean of no values)
NumNaN == 0 - 1

\* Series.str.lower() on the SDN_Type values of this model
StrLower(s) ==
    IF s = "Individual" THEN "individual"
    ELSE IF s = "Entity" THEN "entity"
    ELSE s

\* Series.fillna(x)
fillna(v, x) == IF v = NaN THEN x ELSE v

\* the group keys of groupby(by) on a column of dtype object: rows whose key is
\* missing are dropped (dropna=True)
GroupKeys(rows, by) == {r[by] : r \in rows} \ {NaN}

\* a plausible slip: the distinct count taken over the whole column, the
\* grouping lost
GroupNunique_mut(rows, by, col) ==
    [k \in GroupKeys(rows, by) |-> Cardinality({r[col] : r \in rows})]

\* groupby(by)[col].nunique(): the Series key -> number of distinct values of
\* col. The entity identifier is never missing in the tables of this model.
GroupNunique(rows, by, col) ==
    [k \in GroupKeys(rows, by) |->
        Cardinality({r[col] : r \in {x \in rows : x[by] = k}})]

\* Series.sum() / Series.max() over a column of a table's rows
RECURSIVE SumCol(_, _)
SumCol(rows, col) ==
    IF rows = {} THEN 0
    ELSE LET r == CHOOSE x \in rows : TRUE
         IN r[col] + SumCol(rows \ {r}, col)

MaxCol(rows, col) ==
    CHOOSE m \in {r[col] : r \in rows} : \A r \in rows : r[col] <= m

\* round(num/den * scale) to the nearest integer, ties to the even one
\* (numpy.round and Python's round; num >= 0, den > 0)
RoundHalfEven(num, den, scale) ==
    LET n == num * scale
        q == n \div den
        rem == n % den
    IN IF 2 * rem < den THEN q
       ELSE IF 2 * rem > den THEN q + 1
       ELSE IF q % 2 = 0 THEN q ELSE q + 1

\* the first column of the list cols that df lacks, or NoName
RECURSIVE FirstMissing(_, _)
FirstMissing(cols, df) ==
    IF cols = <<>> THEN NoName
    ELSE IF Head(cols) \notin df.columns THEN Head(cols)
    ELSE FirstMissing(Tail(cols), df)

\* a plausible slip: the message does not name the column
ValueError_mut(msg, c) == [error |-> "ValueError", message |-> msg, column |-> NoName]

ValueError(msg, c) == [error |-> "ValueError", message |-> msg, column |-> c]

\* KeyError: pandas' error for a column that is not there; its message is the
\* column's name
KeyError(c) == [error |-> "KeyError", message |-> c, column |-> c]

IsError(t) == "error" \in DOMAIN t

----------------------------------------------------------------------------
(* data_processor.py: compute_country_risk_metrics *)

MetricsColumns ==
    {"Country", "Total Distinct Entities", "Distinct Individuals", "Distinct Non-Individuals",
     "Rating - Personal & Non-Personal", "Rating - Personal", "Rating - Non-Personal",
     "Rating - Personal & Non-Personal Color", "Rating - Personal & Non-Personal Score",
     "Rating - Personal Color", "Rating - Personal Score",
     "Rating - Non-Personal Color", "Rating - Non-Personal Score"}

\* a plausible slip: the individual mask without .str.lower()
is_individual_mut(r) == fillna(r[SDN_TYPE_COL], "") = "individual"

is_individual(r) == StrLower(fillna(r[SDN_TYPE_COL], "")) = "individual"

\* a plausible slip: the non-individual mask without .str.lower()
not_individual_mut(r) == fillna(r[SDN_TYPE_COL], "") # "individual"

not_individual(r) == StrLower(fillna(r[SDN_TYPE_COL], "")) # "individual"

\* pd.concat([total, inds, non_inds], axis=1): outer join on the index; a key a
\* Series lacks gets a missing value, which fillna(0) turns into 0
\* a plausible slip: join="inner", keeping only the keys all three Series have
ConcatIndex_mut(total, inds, non_inds) ==
    DOMAIN total \cap DOMAIN inds \cap DOMAIN non_inds

ConcatIndex(total, inds, non_inds) ==
    DOMAIN total \cup DOMAIN inds \cup DOMAIN non_inds

ConcatCell(series, k) == IF k \in DOMAIN series THEN series[k] ELSE NumNaN

fillna_num(v, x) == IF v = NumNaN THEN x ELSE v

\* a plausible slip: the Personal rating taken from the total count
MetricsRow_mut(c, t, i, n) ==
    LET rt == apply_risk_rating(t)
        ri == apply_risk_rating(t)
        rn == apply_risk_rating(n)
    IN  ("Country" :> c)
        @@ ("Total Distinct Entities" :> t)
        @@ ("Distinct Individuals" :> i)
        @@ ("Distinct Non-Individuals" :> n)
        @@ ("Rating - Personal & Non-Personal" :> rt)
        @@ ("Rating - Personal" :> ri)
        @@ ("Rating - Non-Personal" :> rn)
        @@ ("Rating - Personal & Non-Personal Color" :> MapDict(RISK_COLOR_MAP, rt))
        @@ ("Rating - Personal & Non-Personal Score" :> MapDict(RISK_SCORE_MAP, rt))
        @@ ("Rating - Personal Color" :> MapDict(RISK_COLOR_MAP, ri))
        @@ ("Rating - Personal Score" :> MapDict(RISK_SCORE_MAP, ri))
        @@ ("Rating - Non-Personal Color" :> MapDict(RISK_COLOR_MAP, rn))
        @@ ("Rating - Non-Personal Score" :> MapDict(RISK_SCORE_MAP, rn))

\* lines 119-129: the three ratings, each with its colour and score, of one row
MetricsRow(c, t, i, n) ==
    LET rt == apply_risk_rating(t)
        ri == apply_risk_rating(i)
        rn == apply_risk_rating(n)
    IN  ("Country" :> c)
        @@ ("Total Distinct Entities" :> t)
        @@ ("Distinct Individuals" :> i)
        @@ ("Distinct Non-Individuals" :> n)
        @@ ("Rating - Personal & Non-Personal" :> rt)
        @@ ("Rating - Personal" :> ri)
        @@ ("Rating - Non-Personal" :> rn)
        @@ ("Rating - Personal & Non-Personal Color" :> MapDict(RISK_COLOR_MAP, rt))
        @@ ("Rating - Personal & Non-Personal Score" :> MapDict(RISK_SCORE_MAP, rt))
        @@ ("Rating - Personal Color" :> MapDict(RISK_COLOR_MAP, ri))
        @@ ("Rating - Personal Score" :> MapDict(RISK_SCORE_MAP, ri))
        @@ ("Rating - Non-Personal Color" :> MapDict(RISK_COLOR_MAP, rn))
        @@ ("Rating - Non-Personal Score" :> MapDict(RISK_SCORE_MAP, rn))

compute_country_risk_metrics(master_ofac_df) ==
    LET df == master_ofac_df
        missing == FirstMissing(<<JOIN_COLUMN, SDN_TYPE_COL, COUNTRY_COL>>, df)
    IN  IF missing # NoName
        THEN ValueError("Input dataframe must contain column", missing)
        ELSE
        LET total == GroupNunique(df.rows, COUNTRY_COL, JOIN_COLUMN)
            inds == GroupNunique({r \in df.rows : is_individual(r)}, COUNTRY_COL, JOIN_COLUMN)
            non_inds == GroupNunique({r \in df.rows : not_individual(r)}, COUNTRY_COL, JOIN_COLUMN)
            cell(s, k) == fillna_num(ConcatCell(s, k), 0)
        IN  [columns |-> MetricsColumns,
             rows |-> {MetricsRow(k, cell(total, k), cell(inds, k), cell(non_inds, k)) :
                          k \in ConcatIndex(total, inds, non_inds)},
             dtype |-> "object",
             categories |-> {}]

----------------------------------------------------------------------------
(* data_processor.py: compute_kpis_kris *)

\* f"{round(x, 1)}%": the percentage in tenths of a percent, or the literal "0%"
Percent(tenths) == [text |-> "round1%", tenths |-> tenths]
\* a plausible slip: the zero ratio formatted like the rounded ones, "0.0%"
ZeroPercent_mut == [text |-> "0.0%", tenths |-> 0]

ZeroPercent == [text |-> "0%", tenths |-> 0]

\* lines 162-164 applied to one row of grouped
GroupedRow(r) ==
    LET level == apply_risk_rating(r["Total Distinct Entities"])
    IN  r @@ ("Risk_Level" :> level)
          @@ ("Risk_Score" :> MapDict(RISK_SCORE_MAP, level))
          @@ ("Risk_Color" :> MapDict(RISK_COLOR_MAP, level))

\* a plausible slip: the Critical count taken over the Non-Personal rating
compute_kpis_kris_mut(m) ==
    LET total_entities == SumCol(m.rows, "Total Distinct Entities")
        top_concentration == IF m.rows # {} THEN MaxCol(m.rows, "Total Distinct Entities") ELSE 0
        critical_count ==
            Cardinality({r \in m.rows : r["Rating - Non-Personal"] = "Critical"})
        non_ind_total == SumCol(m.rows, "Distinct Non-Individuals")
        non_ind_ratio ==
            IF total_entities > 0
            THEN Percent(RoundHalfEven(non_ind_total, total_entities, 1000))
            ELSE ZeroPercent
        kpis == ("Total Distinct Entities" :> total_entities)
                @@ ("Top SDN Concentration" :> top_concentration)
        kris == ("Critical Risk Jurisdictions" :> critical_count)
                @@ ("Non-Individual Entity Ratio" :> non_ind_ratio)
        missing == FirstMissing(<<"Total Distinct Entities", "Rating - Personal & Non-Personal",
                                  "Distinct Non-Individuals">>, m)
    IN  IF missing # NoName
        THEN \* metrics_df[...] at lines 137, 139, 140
             KeyError(missing)
        ELSE IF {"Country", "Sanctions Program", "SDN_Type", "Total Distinct Entities"} \subseteq m.columns
        THEN \* grouped holds Country, Sanctions Program, SDN_Type, Total_Entities only:
             \* grouped["Total Distinct Entities"] at line 162 raises KeyError
             KeyError("Total Distinct Entities")
        ELSE [kpis |-> kpis,
              kris |-> kris,
              grouped |-> [columns |-> m.columns \cup {"Risk_Level", "Risk_Score", "Risk_Color"},
                           rows |-> {GroupedRow(r) : r \in m.rows},
                           dtype |-> m.dtype,
                           categories |-> m.categories]]

compute_kpis_kris(m) ==
    LET total_entities == SumCol(m.rows, "Total Distinct Entities")
        top_concentration == IF m.rows # {} THEN MaxCol(m.rows, "Total Distinct Entities") ELSE 0
        critical_count ==
            Cardinality({r \in m.rows : r["Rating - Personal & Non-Personal"] = "Critical"})
        non_ind_total == SumCol(m.rows, "Distinct Non-Individuals")
        non_ind_ratio ==
            IF total_entities > 0
            THEN Percent(RoundHalfEven(non_ind_total, total_entities, 1000))
            ELSE ZeroPercent
        kpis == ("Total Distinct Entities" :> total_entities)
                @@ ("Top SDN Concentration" :> top_concentration)
        kris == ("Critical Risk Jurisdictions" :> critical_count)
                @@ ("Non-Individual Entity Ratio" :> non_ind_ratio)
        missing == FirstMissing(<<"Total Distinct Entities", "Rating - Personal & Non-Personal",
                                  "Distinct Non-Individuals">>, m)
    IN  IF missing # NoName
        THEN \* metrics_df[...] at lines 137, 139, 140
             KeyError(missing)
        ELSE IF {"Country", "Sanctions Program", "SDN_Type", "Total Distinct Entities"} \subseteq m.columns
        THEN \* grouped holds Country, Sanctions Program, SDN_Type, Total_Entities only:
             \* grouped["Total Distinct Entities"] at line 162 raises KeyError
             KeyError("Total Distinct Entities")
        ELSE [kpis |-> kpis,
              kris |-> kris,
              grouped |-> [columns |-> m.columns \cup {"Risk_Level", "Risk_Score", "Risk_Color"},
                           rows |-> {GroupedRow(r) : r \in m.rows},
                           dtype |-> m.dtype,
                           categories |-> m.categories]]

----------------------------------------------------------------------------
(* groupby on several keys *)

\* rows whose two keys are both present
PairRows(rows, c, p) ==
    {r \in rows : r[COUNTRY_COL] = c /\ r[SDN_PROGRAM_COLUMN] = p}

\* the (Country, Sanctions Program) pairs that occur on a row
ObservedPairs(rows) ==
    {<<r[COUNTRY_COL], r[SDN_PROGRAM_COLUMN]>> :
        r \in {x \in rows : x[COUNTRY_COL] # NaN /\ x[SDN_PROGRAM_COLUMN] # NaN}}

\* A groupby whose keys include a categorical column, called without observed=,
\* takes pandas' default: before pandas 3.0 that is observed=False, and the result
\* is reindexed to the product of every key's group index (the categories of a
\* categorical key, the observed values of the others).
Unobserved(df, observed) == df.dtype = "category" /\ ~observed

\* mean of the Risk_Score of rows, rounded to `scale` units per 1, in hundredths;
\* the mean of no rows is a missing value
MeanScore(rows, scale) ==
    IF rows = {} THEN NumNaN
    ELSE RoundHalfEven(SumCol(rows, "Risk_Score"), Cardinality(rows), scale) * (100 \div scale)

----------------------------------------------------------------------------
(* data_processor.py: prepare_pivot_data *)

\* lines 208-213; score in hundredths. Every comparison with a missing score is
\* false, so it falls to the last branch.
risk_color(score) ==
    IF score = NumNaN THEN "#FF0000"
    ELSE IF score < 2 * 100 THEN "#2E4A1E"
    ELSE IF score < 3 * 100 THEN "#9ACD32"
    ELSE IF score < 4 * 100 THEN "#FFFF00"
    ELSE IF score < 5 * 100 THEN "#FFA500"
    ELSE "#FF0000"

\* lines 186-190: one row per (Country, Sanctions Program, ent_num) group. The
\* group's size (tmp_count, 0 for a group no row belongs to) is never read and
\* is left out of the row.
dp_temp(df, observed) ==
    LET rows == {r \in df.rows : r[COUNTRY_COL] # NaN /\ r[SDN_PROGRAM_COLUMN] # NaN}
        keys == IF Unobserved(df, observed)
                THEN df.categories \X {r[SDN_PROGRAM_COLUMN] : r \in rows}
                                   \X {r[JOIN_COLUMN] : r \in rows}
                ELSE {<<r[COUNTRY_COL], r[SDN_PROGRAM_COLUMN], r[JOIN_COLUMN]>> : r \in rows}
    IN  {[Country |-> k[1], ent_num |-> k[3]] @@ ("Sanctions Program" :> k[2]) : k \in keys}

\* lines 191-195: the Risk_Score-absent path
dp_pivot_absent(df, observed) ==
    LET temp == dp_temp(df, observed)
        keys == IF Unobserved(df, observed)
                THEN df.categories \X {t[SDN_PROGRAM_COLUMN] : t \in temp}
                ELSE {<<t[COUNTRY_COL], t[SDN_PROGRAM_COLUMN]>> : t \in temp}
        count(c, p) == Cardinality(PairRows(temp, c, p))
        row(c, p) ==
            LET level == apply_risk_rating(count(c, p))
                score == MapDict(RISK_SCORE_MAP, level)
            IN  [Country |-> c, SDN_Count |-> count(c, p), Risk_Level |-> level,
                 Risk_Score |-> score, Avg_Risk_Score |-> score * 100]
                @@ ("Sanctions Program" :> p)
    IN  [columns |-> {"Country", "Sanctions Program", "SDN_Count", "Risk_Level",
                      "Risk_Score", "Avg_Risk_Score"},
         rows |-> {row(k[1], k[2]) : k \in keys}]

\* lines 198-205: the Risk_Score-present path
dp_pivot_present(df, observed) ==
    LET rows == df.rows
        keys == IF Unobserved(df, observed)
                THEN df.categories \X GroupKeys(rows, SDN_PROGRAM_COLUMN)
                ELSE ObservedPairs(rows)
        row(c, p) ==
            [Country |-> c,
             SDN_Count |-> Cardinality({r[JOIN_COLUMN] : r \in PairRows(rows, c, p)}),
             Avg_Risk_Score |-> MeanScore(PairRows(rows, c, p), 100)]
            @@ ("Sanctions Program" :> p)
    IN  [columns |-> {"Country", "Sanctions Program", "SDN_Count", "Avg_Risk_Score"},
         rows |-> {row(k[1], k[2]) : k \in keys}]

dp_prepare_pivot_data(master_ofac_df, observed) ==
    LET df == master_ofac_df
        missing == FirstMissing(<<JOIN_COLUMN, SDN_PROGRAM_COLUMN, COUNTRY_COL>>, df)
    IN  IF missing # NoName
        THEN ValueError("Input dataframe must contain column", missing)
        ELSE
        LET pivot_df == IF "Risk_Score" \notin df.columns
                        THEN dp_pivot_absent(df, observed)
                        ELSE dp_pivot_present(df, observed)
        IN  [columns |-> pivot_df.columns \cup {"Risk_Color"},
             rows |-> {r @@ ("Risk_Color" :> risk_color(r["Avg_Risk_Score"])) : r \in pivot_df.rows},
             dtype |-> df.dtype,
             categories |-> df.categories]

----------------------------------------------------------------------------
(* pivot_risk_visuals.py: prepare_pivot_data *)

\* line 116: the inline thresholds
pv_count_score(x) ==
    IF x <= 200 THEN 1
    ELSE IF x <= 400 THEN 2
    ELSE IF x <= 600 THEN 3
    ELSE IF x <= 800 THEN 4
    ELSE IF x <= 1000 THEN 5
    ELSE 6

\* lines 108-130; both groupby calls pass observed=True
pv_pivot_rows(df) ==
    LET rows == df.rows
        nunique(c, p) == Cardinality({r["ent_num"] : r \in PairRows(rows, c, p)})
    IN  IF "Risk_Score" \notin df.columns
        THEN {[Country |-> k[1], Total_SDNs |-> nunique(k[1], k[2]),
               Avg_Risk_Score |-> pv_count_score(nunique(k[1], k[2])) * 100]
              @@ ("Sanctions Program" :> k[2]) : k \in ObservedPairs(rows)}
        ELSE {[Country |-> k[1], Total_SDNs |-> nunique(k[1], k[2]),
               Avg_Risk_Score |-> MeanScore(PairRows(rows, k[1], k[2]), 10)]
              @@ ("Sanctions Program" :> k[2]) : k \in ObservedPairs(rows)}

pv_prepare_pivot_data(df) ==
    LET missing == FirstMissing(<<"Country", "Sanctions Program">>, df)
    IN  IF missing # NoName
        THEN ValueError("Missing required column", missing)
        ELSE IF "ent_num" \notin df.columns
        THEN KeyError("ent_num")
        ELSE
        LET pivot_rows == pv_pivot_rows(df)
        IN  [columns |-> {"Country", "Sanctions Program", "Total_SDNs", "Avg_Risk_Score"},
             rows |-> IF Cardinality(pivot_rows) > 20000
                      THEN CHOOSE sample \in SUBSET pivot_rows : Cardinality(sample) = 20000
                      ELSE pivot_rows,
             dtype |-> df.dtype,
             categories |-> df.categories]

----------------------------------------------------------------------------
(* data_processor.py: clean_invalid_countries; app.py: the dashboard's copy *)

\* str(v).strip() on the Country values of this model; str(NaN) is "nan"
StrStrip(v) == IF v = NaN THEN "nan" ELSE v

clean_invalid_countries(df) ==
    IF "Country" \notin df.columns THEN df
    ELSE [df EXCEPT !.rows =
            {IF StrStrip(r["Country"]) = "-0-"
             THEN [r EXCEPT !["Country"] = "Unknown SDN"]
             ELSE r : r \in df.rows}]

\* app.py lines 202-210
dashboard_master(df) ==
    IF "Country" \notin df.columns THEN df
    ELSE LET country(r) == IF StrStrip(r["Country"]) = "-0-" THEN "Unknown"
                           ELSE StrStrip(r["Country"])
             rows == {[r EXCEPT !["Country"] = country(r)] : r \in df.rows}
         IN  [df EXCEPT !.rows = rows,
                        !.dtype = "category",
                        !.categories = {r["Country"] : r \in rows}]

----------------------------------------------------------------------------
(* data_processor.py: run_ofac_data_pipeline with df_override *)

\* a plausible slip: the metrics computed from the table before the cleaning
run_ofac_data_pipeline_mut(df_override) ==
    LET master == clean_invalid_countries(df_override)
        metrics == compute_country_risk_metrics(df_override)
    IN  IF IsError(metrics) THEN metrics
        ELSE LET k == compute_kpis_kris(metrics)
             IN  IF IsError(k) THEN k
                 ELSE [metrics_df |-> metrics, aggregated_df |-> k.grouped, master_df |-> master]

run_ofac_data_pipeline(df_override) ==
    LET master == clean_invalid_countries(df_override)
        metrics == compute_country_risk_metrics(master)
    IN  IF IsError(metrics) THEN metrics
        ELSE LET k == compute_kpis_kris(metrics)
             IN  IF IsError(k) THEN k
                 ELSE [metrics_df |-> metrics, aggregated_df |-> k.grouped, master_df |-> master]

----------------------------------------------------------------------------
(* The input tables: a table is given as one or two blocks of rows; a block  *)
(* holds one row for each entity identifier lo..hi, all with the same type,  *)
(* country, program and score.                                               *)

Block(lo, hi, t, c, p, s) == [lo |-> lo, hi |-> hi, t |-> t, c |-> c, p |-> p, s |-> s]

BlockRows(b, first, withScore) ==
    {([index |-> first + (e - b.lo), ent_num |-> e, SDN_Type |-> b.t, Country |-> b.c]
        @@ ("Sanctions Program" :> b.p))
        @@ (IF withScore THEN [Risk_Score |-> b.s] ELSE <<>>) : e \in b.lo..b.hi}

BaseColumns == {"ent_num", "SDN_Type", "Country", "Sanctions Program"}

TableOf(blocks, withScore) ==
    [columns |-> IF withScore THEN BaseColumns \cup {"Risk_Score"} ELSE BaseColumns,
     rows |-> BlockRows(blocks[1], 0, withScore)
              \cup (IF Len(blocks) > 1
                    THEN BlockRows(blocks[2], blocks[1].hi - blocks[1].lo + 1, withScore)
                    ELSE {}),
     dtype |-> "object",
     categories |-> {}]

SmallFirst == {Block(1, MaxSmallEnt, t, "Iran", "SDGT", 2) : t \in {"individual", "Entity"}}

LargeFirst ==
    {Block(1, hi, t, "Iran", "SDGT", 2) :
        hi \in {200 + Over, 1000, 1000 + Over}, t \in {"individual", "Entity"}}

SmallSecond ==
    {Block(e, e, t, c, p, s) :
        e \in 1..MaxSmallEnt, t \in {"Individual", "Entity", NaN},
        c \in {"Iran", "Russia", "-0-", NaN}, p \in {"SDGT", "IRAN"}, s \in {1}}

LargeSecond ==
    {Block(1, hi, t, c, p, 1) :
        hi \in {1, 200 + Over}, t \in {"individual", "Entity"},
        c \in {"Iran", "Russia"}, p \in {"SDGT", "IRAN"}}

InputTables ==
    {TableOf(<<b>>, FALSE) : b \in SmallFirst \cup LargeFirst}
    \cup {TableOf(<<b1, b2>>, FALSE) : b1 \in SmallFirst, b2 \in SmallSecond}
    \cup {TableOf(<<b1, b2>>, FALSE) : b1 \in LargeFirst, b2 \in LargeSecond}
    \cup {TableOf(<<b1, [b2 EXCEPT !.s = s]>>, TRUE) :
            b1 \in SmallFirst, b2 \in SmallSecond, s \in {1, 6}}

----------------------------------------------------------------------------
(* The request: run_ofac_data_pipeline, then the dashboard script *)

NoTable == [columns |-> {}, rows |-> {}, dtype |-> "object", categories |-> {}]

\* nothing of the direct calls, of the source files or of the sidebar yet
NoCall == kpi_arg = None
NoLabel == avg_risk_score = 0 /\ labels = <<>>
NoIdem == df_vis_again = <<>>
NoRequest == pv_pivot_df = None /\ rendered = {}
NoFrame == heap = <<>> /\ frame = None
NoCache == disk = None /\ session = None /\ cache = <<>> /\ served = None
NoOther == NoLabel /\ NoIdem /\ NoRequest /\ NoFrame /\ NoCache
NoSources == sources = None /\ joined_df = None
NoFilter ==
    /\ selected_countries = <<>> /\ selected_programs = <<>>
    /\ top_n_country = 0 /\ top_n_program = 0
    /\ df_vis = <<>>
    /\ top_countries = <<>> /\ top_programs = <<>>
    /\ chosen_countries = <<>> /\ chosen_programs = <<>>
    /\ filtered_master_df = None
    /\ top_n = 0 /\ top_n_df = <<>>

Init ==
    /\ upload \in InputTables
    /\ pandasObserved \in BOOLEAN
    /\ pc = "start"
    /\ master_df = None
    /\ dash_master = None
    /\ metrics_df = None
    /\ aggregated_df = None
    /\ kpi_out = None
    /\ pv_pivot = None
    /\ dp_pivot = None
    /\ value = 0
    /\ rating = NoName
    /\ NoOther /\ NoCall /\ NoSources /\ NoFilter

\* RunPipeline: load_metrics (app.py lines 78-92) with an uploaded table: the
\* pipeline on df_override; an exception gives (None, None, None)
RunPipeline ==
    /\ pc = "start"
    /\ LET out == run_ofac_data_pipeline(upload)
       IN  IF IsError(out)
           THEN /\ pc' = "failed"
                /\ UNCHANGED <<master_df, metrics_df, aggregated_df>>
           ELSE /\ pc' = "loaded"
                /\ master_df' = out.master_df
                /\ metrics_df' = out.metrics_df
                /\ aggregated_df' = out.aggregated_df
    /\ UNCHANGED <<upload, pandasObserved, dash_master, kpi_out, pv_pivot, dp_pivot, value, rating>>
    /\ UNCHANGED <<otherVars, callVars, sourceVars, filterVars>>

\* app.py lines 196-210: the load guard, then the categorical copy
Dashboard ==
    /\ pc = "loaded"
    /\ metrics_df.rows # {}
    /\ master_df.rows # {}
    /\ dash_master' = dashboard_master(master_df)
    /\ pc' = "dashboard"
    /\ UNCHANGED <<upload, pandasObserved, master_df, metrics_df, aggregated_df,
                   kpi_out, pv_pivot, dp_pivot, value, rating>>
    /\ UNCHANGED <<otherVars, callVars, sourceVars, filterVars>>

\* app.py line 292
ComputeKpisKris ==
    /\ pc = "dashboard"
    /\ kpi_out' = compute_kpis_kris(metrics_df)
    /\ pc' = "kpis"
    /\ UNCHANGED <<upload, pandasObserved, master_df, dash_master, metrics_df,
                   aggregated_df, pv_pivot, dp_pivot, value, rating>>
    /\ UNCHANGED <<otherVars, callVars, sourceVars, filterVars>>

\* the table a pivot call is given: the pipeline's master table, the
\* dashboard's categorical copy, or the caller's own table
Arg(src) ==
    IF src = "master_df" THEN master_df
    ELSE IF src = "upload" THEN upload
    ELSE dash_master

\* app.py line 427 (and line 146): pivot_risk_visuals.prepare_pivot_data
PreparePivotPV(src) ==
    /\ pc = "kpis"
    /\ pv_pivot = None
    /\ pv_pivot' = [arg |-> src, out |-> pv_prepare_pivot_data(Arg(src))]
    /\ UNCHANGED <<upload, pandasObserved, pc, master_df, dash_master, metrics_df,
                   aggregated_df, kpi_out, dp_pivot, value, rating>>
    /\ UNCHANGED <<otherVars, callVars, sourceVars, filterVars>>

\* data_processor.prepare_pivot_data, the upstream implementation
PreparePivotDP(src) ==
    /\ pc = "kpis"
    /\ dp_pivot = None
    /\ dp_pivot' = [arg |-> src, out |-> dp_prepare_pivot_data(Arg(src), pandasObserved)]
    /\ UNCHANGED <<upload, pandasObserved, pc, master_df, dash_master, metrics_df,
                   aggregated_df, kpi_out, pv_pivot, value, rating>>
    /\ UNCHANGED <<otherVars, callVars, sourceVars, filterVars>>

Next ==
    \/ RunPipeline
    \/ Dashboard
    \/ ComputeKpisKris
    \/ \E src \in {"master_df", "dash_master"} : PreparePivotPV(src)
    \/ \E src \in {"master_df", "dash_master"} : PreparePivotDP(src)

Spec == Init /\ [][Next]_vars

----------------------------------------------------------------------------
(* A single call of apply_risk_rating on a count *)

MaxValue == 1000 + MaxOverCritical

InitRating ==
    /\ value \in 0..MaxValue
    /\ rating = NoName
    /\ upload = NoTable
    /\ pandasObserved = TRUE
    /\ pc = "rating"
    /\ master_df = None
    /\ dash_master = None
    /\ metrics_df = None
    /\ aggregated_df = None
    /\ kpi_out = None
    /\ pv_pivot = None
    /\ dp_pivot = None
    /\ NoOther /\ NoCall /\ NoSources /\ NoFilter

ApplyRiskRating ==
    /\ pc = "rating"
    /\ rating = NoName
    /\ rating' = apply_risk_rating(value)
    /\ UNCHANGED <<upload, pandasObserved, pc, master_df, dash_master, metrics_df,
                   aggregated_df, kpi_out, pv_pivot, dp_pivot, value>>
    /\ UNCHANGED <<otherVars, callVars, sourceVars, filterVars>>

NextRating == ApplyRiskRating

SpecRating == InitRating /\ [][NextRating]_vars

----------------------------------------------------------------------------
(* Direct calls of the aggregation functions, and the pipeline, on tables    *)
(* that may lack columns or have no rows                                     *)

\* df.drop(columns=drop)
WithoutColumns(df, drop) ==
    [df EXCEPT !.columns = @ \ drop,
               !.rows = {[k \in DOMAIN r \ drop |-> r[k]] : r \in @}]

CallBase ==
    {TableOf(<<b>>, FALSE) : b \in SmallFirst}
    \cup {TableOf(<<b1, b2>>, withScore) :
            b1 \in SmallFirst,
            b2 \in {Block(1, 1, "Entity", "Russia", "IRAN", 6),
                    Block(2, 2, NaN, "-0-", "SDGT", 1)},
            withScore \in BOOLEAN}

\* each base table with some of the required columns dropped, with its rows
\* and without any row (a CSV that holds only the header line)
CallTables ==
    {WithoutColumns(t, drop) : t \in CallBase, drop \in SUBSET BaseColumns}
    \cup {[WithoutColumns(t, drop) EXCEPT !.rows = {}] :
            t \in CallBase, drop \in SUBSET BaseColumns}

\* the columns compute_kpis_kris reads (data_processor.py lines 137-140)
KpiColumns == {"Total Distinct Entities", "Rating - Personal & Non-Personal",
               "Distinct Non-Individuals"}

\* the table of the module's quick test (data_processor.py lines 259-268)
SampleTypes ==
    <<"individual", "entity", "entity", "individual", "entity",
      "entity", "individual", "entity", "entity", "individual">>
SampleCountries ==
    <<"Russia", "Russia", "Iran", "China", "Mexico",
      "Mexico", "UAE", "Colombia", "Turkey", "Lebanon">>
SamplePrograms ==
    <<"IRAN", "IRAN", "RUSSIA", "CHINA", "MEX", "MEX", "UAE", "COL", "TUR", "LEB">>

sample_df ==
    [columns |-> BaseColumns,
     rows |-> {[index |-> i - 1, ent_num |-> i, SDN_Type |-> SampleTypes[i],
                Country |-> SampleCountries[i]]
                  @@ ("Sanctions Program" :> SamplePrograms[i]) : i \in 1..10},
     dtype |-> "object",
     categories |-> {}]

InitCalls ==
    /\ upload \in CallTables \cup {sample_df}
    /\ pandasObserved \in BOOLEAN
    /\ pc \in {"start", "calls"}
    /\ master_df = None
    /\ dash_master = None
    /\ metrics_df = None
    /\ aggregated_df = None
    /\ kpi_out = None
    /\ pv_pivot = None
    /\ dp_pivot = None
    /\ value = 0
    /\ rating = NoName
    /\ NoOther /\ NoCall /\ NoSources /\ NoFilter

\* compute_country_risk_metrics(upload)
CallMetrics ==
    /\ pc = "calls"
    /\ metrics_df = None
    /\ metrics_df' = compute_country_risk_metrics(upload)
    /\ UNCHANGED <<upload, pandasObserved, pc, master_df, dash_master, aggregated_df,
                   kpi_out, pv_pivot, dp_pivot, value, rating>>
    /\ UNCHANGED <<otherVars, callVars, sourceVars, filterVars>>

\* a table with further columns, each holding one value on every row
WithColumns(df, extra) ==
    [df EXCEPT !.columns = @ \cup DOMAIN extra,
               !.rows = {r @@ extra : r \in @}]

\* the columns whose presence selects the grouped branch of compute_kpis_kris
\* (data_processor.py line 152), beside Country and Total Distinct Entities
ProgramAndType == ("Sanctions Program" :> "SDGT") @@ ("SDN_Type" :> "Entity")

CarriedColumns == {[c \in {} |-> NoName], ProgramAndType}

\* compute_kpis_kris on the Country Metrics table, on a part of its columns, or
\* on the table carrying Sanctions Program and SDN_Type as well
CallKpis(drop, carry) ==
    /\ pc \in {"calls", "loaded"}
    /\ metrics_df # None
    /\ ~IsError(metrics_df)
    /\ kpi_arg = None
    /\ kpi_arg' = WithColumns(WithoutColumns(metrics_df, drop), carry)
    /\ kpi_out' = compute_kpis_kris(kpi_arg')
    /\ UNCHANGED <<upload, pandasObserved, pc, master_df, dash_master, metrics_df,
                   aggregated_df, pv_pivot, dp_pivot, value, rating>>
    /\ UNCHANGED <<otherVars, sourceVars, filterVars>>

\* pivot_risk_visuals.prepare_pivot_data(upload)
CallPivotPV ==
    /\ pc = "calls"
    /\ pv_pivot = None
    /\ pv_pivot' = [arg |-> "upload", out |-> pv_prepare_pivot_data(upload)]
    /\ UNCHANGED <<upload, pandasObserved, pc, master_df, dash_master, metrics_df,
                   aggregated_df, kpi_out, dp_pivot, value, rating>>
    /\ UNCHANGED <<otherVars, callVars, sourceVars, filterVars>>

\* data_processor.prepare_pivot_data(upload)
CallPivotDP ==
    /\ pc = "calls"
    /\ dp_pivot = None
    /\ dp_pivot' = [arg |-> "upload", out |-> dp_prepare_pivot_data(upload, pandasObserved)]
    /\ UNCHANGED <<upload, pandasObserved, pc, master_df, dash_master, metrics_df,
                   aggregated_df, kpi_out, pv_pivot, value, rating>>
    /\ UNCHANGED <<otherVars, callVars, sourceVars, filterVars>>

NextCalls ==
    \/ RunPipeline
    \/ CallMetrics
    \/ \E drop \in SUBSET KpiColumns, carry \in CarriedColumns : CallKpis(drop, carry)
    \/ CallPivotPV
    \/ CallPivotDP

SpecCalls == InitCalls /\ [][NextCalls]_vars

----------------------------------------------------------------------------
(* data_processor.py: the source files, load_csv, load_map_data, and         *)
(* run_ofac_data_pipeline without df_override                                *)

\* a source file: no path given, a path to no file, a file pandas cannot
\* read, or a file parsed to a table
NoPath == [kind |-> "none"]
AbsentFile == [kind |-> "absent"]
UnreadableFile == [kind |-> "unreadable"]
CsvFile(t) == [kind |-> "csv", table |-> t]

\* a plausible slip: a file that cannot be read is taken as a table without
\* columns or rows
load_csv_mut(file_path) ==
    IF file_path.kind = "csv" THEN file_path.table
    ELSE IF file_path.kind = "unreadable" THEN NoTable
    ELSE None

load_csv(file_path) ==
    IF file_path.kind = "csv" THEN file_path.table ELSE None

load_map_data(map_filepath) ==
    IF map_filepath.kind = "csv" THEN map_filepath.table ELSE None

MAP_JOIN_COLUMN == "Sanction codes"
MAP_DESCRIPTION_COLUMN == "Active Sanctions Programs"

\* pd.merge(left, right, on=on, how="left"): every left row once for each right
\* row with the same key, or once with the right columns missing; columns the
\* two tables share besides the key get the suffixes _x and _y; the result is
\* numbered anew in the order of the left rows
Overlap(left, right, on) == (left.columns \cap right.columns) \ {on}

RECURSIVE Suffixed(_, _, _, _)
Suffixed(row, cols, ov, suffix) ==
    IF cols = {} THEN <<>>
    ELSE LET c == CHOOSE x \in cols : TRUE
         IN  ((IF c \in ov THEN c \o suffix ELSE c) :> row[c])
                @@ Suffixed(row, cols \ {c}, ov, suffix)

Matches(l, right, on) == {r \in right.rows : r[on] = l[on]}

Width(l, right, on) ==
    IF Matches(l, right, on) = {} THEN 1 ELSE Cardinality(Matches(l, right, on))

RECURSIVE SumWidth(_, _, _)
SumWidth(ls, right, on) ==
    IF ls = {} THEN 0
    ELSE LET l == CHOOSE x \in ls : TRUE
         IN  Width(l, right, on) + SumWidth(ls \ {l}, right, on)

MergedRow(l, r, left, right, on, i) ==
    LET ov == Overlap(left, right, on)
    IN  ("index" :> i)
            @@ Suffixed(l, left.columns, ov, "_x")
            @@ Suffixed(r, right.columns \ {on}, ov, "_y")

MergedColumns(left, right, on) ==
    LET ov == Overlap(left, right, on)
    IN  {IF c \in ov THEN c \o "_x" ELSE c : c \in left.columns}
            \cup {IF c \in ov THEN c \o "_y" ELSE c : c \in right.columns \ {on}}

MergedRowsOf(l, left, right, on, keepUnmatched) ==
    LET ms == Matches(l, right, on)
        first == SumWidth({x \in left.rows : x["index"] < l["index"]}, right, on)
        missing == [c \in right.columns |-> NaN]
    IN  IF ms = {}
        THEN IF keepUnmatched THEN {MergedRow(l, missing, left, right, on, first)} ELSE {}
        ELSE {MergedRow(l, r, left, right, on,
                        first + Cardinality({x \in ms : x["index"] < r["index"]})) : r \in ms}

\* a plausible slip: how="inner", which drops the left rows without a match
merge_left_mut(left, right, on) ==
    IF on \notin left.columns \/ on \notin right.columns THEN KeyError(on)
    ELSE [columns |-> MergedColumns(left, right, on),
          rows |-> UNION {MergedRowsOf(l, left, right, on, FALSE) : l \in left.rows},
          dtype |-> left.dtype,
          categories |-> left.categories]

merge_left(left, right, on) ==
    IF on \notin left.columns \/ on \notin right.columns THEN KeyError(on)
    ELSE [columns |-> MergedColumns(left, right, on),
          rows |-> UNION {MergedRowsOf(l, left, right, on, TRUE) : l \in left.rows},
          dtype |-> left.dtype,
          categories |-> left.categories]

\* df.rename(columns={old: new}); a table without the column old is unchanged
RenameColumn(df, old, new) ==
    IF old \notin df.columns THEN df
    ELSE [df EXCEPT !.columns = (@ \ {old}) \cup {new},
                    !.rows = {[c \in (DOMAIN r \ {old}) \cup {new} |->
                                  IF c = new THEN r[old] ELSE r[c]] : r \in @}]

\* lines 242-245: the join of the entity table with the address table
join_step(sdn_df, add_df) ==
    IF add_df # None /\ JOIN_COLUMN \in sdn_df.columns /\ JOIN_COLUMN \in add_df.columns
    THEN merge_left(sdn_df, add_df, JOIN_COLUMN)
    ELSE sdn_df

\* lines 247-249: the program descriptions
map_step(master, map_df) ==
    IF map_df # None /\ SDN_PROGRAM_COLUMN \in master.columns
    THEN merge_left(master, RenameColumn(map_df, MAP_JOIN_COLUMN, SDN_PROGRAM_COLUMN),
                    SDN_PROGRAM_COLUMN)
    ELSE master

\* run_ofac_data_pipeline(sdn_file, add_file, map_file): lines 233-257; joined
\* is the local master_df after the join
run_ofac_data_pipeline_sources(sdn_file, add_file, map_file) ==
    LET sdn_df == load_csv(sdn_file)
        add_df == load_csv(add_file)
        map_df == load_map_data(map_file)
    IN  IF sdn_df = None
        THEN [metrics_df |-> None, aggregated_df |-> None, master_df |-> None, joined |-> None]
        ELSE LET joined == join_step(sdn_df, add_df)
                 mapped == map_step(joined, map_df)
                 out == IF IsError(mapped) THEN mapped ELSE run_ofac_data_pipeline(mapped)
             IN  out @@ [joined |-> joined]

SdnBase ==
    [columns |-> BaseColumns,
     rows |-> {[index |-> 0, ent_num |-> 1, SDN_Type |-> "individual", Country |-> "Iran"]
                  @@ ("Sanctions Program" :> "SDGT"),
               [index |-> 1, ent_num |-> 2, SDN_Type |-> "Entity", Country |-> "-0-"]
                  @@ ("Sanctions Program" :> "IRAN")},
     dtype |-> "object",
     categories |-> {}]

\* the entity table with and without its own Country column and its key
SdnTables == {WithoutColumns(SdnBase, drop) : drop \in SUBSET {"Country", "ent_num"}}

\* entity 1 has two addresses, entity 2 none, entity 3 is not an entity of
\* the entity table
AddBase ==
    [columns |-> {"ent_num", "Country", "Address"},
     rows |-> {[index |-> 0, ent_num |-> 1, Country |-> "Iran", Address |-> "Tehran"],
               [index |-> 1, ent_num |-> 1, Country |-> "Russia", Address |-> "Moscow"],
               [index |-> 2, ent_num |-> 3, Country |-> "China", Address |-> "Beijing"]},
     dtype |-> "object",
     categories |-> {}]

AddTables == {WithoutColumns(AddBase, drop) : drop \in SUBSET {"ent_num"}}

MapBase ==
    [columns |-> {MAP_JOIN_COLUMN, MAP_DESCRIPTION_COLUMN},
     rows |-> {("index" :> 0) @@ (MAP_JOIN_COLUMN :> "SDGT")
                  @@ (MAP_DESCRIPTION_COLUMN :> "Counter Terrorism")},
     dtype |-> "object",
     categories |-> {}]

MapTables == {WithoutColumns(MapBase, drop) : drop \in SUBSET {MAP_JOIN_COLUMN}}

FilesOf(tables) == {NoPath, AbsentFile, UnreadableFile} \cup {CsvFile(t) : t \in tables}

InitSources ==
    /\ sources \in [sdn_file : FilesOf(SdnTables), add_file : FilesOf(AddTables),
                    map_file : FilesOf(MapTables)]
    /\ joined_df = None
    /\ upload = NoTable
    /\ pandasObserved = TRUE
    /\ pc = "start"
    /\ master_df = None
    /\ dash_master = None
    /\ metrics_df = None
    /\ aggregated_df = None
    /\ kpi_out = None
    /\ pv_pivot = None
    /\ dp_pivot = None
    /\ value = 0
    /\ rating = NoName
    /\ NoOther /\ NoCall /\ NoFilter

\* run_ofac_data_pipeline(sdn_file, add_file, map_file) called on the sources
RunPipelineSources ==
    /\ pc = "start"
    /\ sources # None
    /\ LET out == run_ofac_data_pipeline_sources(sources.sdn_file, sources.add_file,
                                                 sources.map_file)
       IN  /\ joined_df' = out.joined
           /\ IF IsError(out)
              THEN /\ pc' = "raised"
                   /\ UNCHANGED <<master_df, metrics_df, aggregated_df>>
              ELSE /\ pc' = "returned"
                   /\ master_df' = out.master_df
                   /\ metrics_df' = out.metrics_df
                   /\ aggregated_df' = out.aggregated_df
    /\ UNCHANGED <<upload, pandasObserved, dash_master, kpi_out, pv_pivot, dp_pivot,
                   value, rating, sources>>
    /\ UNCHANGED <<otherVars, callVars, filterVars>>

NextSources == RunPipelineSources

SpecSources == InitSources /\ [][NextSources]_vars

----------------------------------------------------------------------------
(* app.py: the sidebar selections, the Top-N lists and the filters. A table  *)
(* whose row order matters is held as the sequence of its rows.              *)

\* Python's order (by code point) of the strings that occur as countries and
\* programs
SortedNames ==
    <<"(No Country)", "(No Program)", "CHINA", "COL", "China", "Colombia", "IRAN", "Iran",
      "LEB", "Lebanon", "MEX", "Mexico", "RUSSIA", "Russia", "SDGT", "Unknown SDN", "nan">>

\* sorted(values)
sorted(values) == SelectSeq(SortedNames, LAMBDA x : x \in values)

Range(list) == {list[i] : i \in DOMAIN list}

\* df.head(n)
head(rows, n) == SubSeq(rows, 1, IF n < Len(rows) THEN n ELSE Len(rows))

\* the rows of the Country Metrics table in their order: the groupby keys,
\* sorted (data_processor.py lines 113-117)
MetricsSeq(m) ==
    LET names == sorted({r["Country"] : r \in m.rows})
    IN  [i \in 1..Len(names) |-> CHOOSE r \in m.rows : r["Country"] = names[i]]

\* the rows in descending order of col, rows with equal values in their
\* original order
StableDesc(rows, col) ==
    LET pos(i) == Cardinality({j \in DOMAIN rows : rows[j][col] > rows[i][col]})
                    + Cardinality({j \in 1..i : rows[j][col] = rows[i][col]})
    IN  [k \in DOMAIN rows |-> rows[CHOOSE i \in DOMAIN rows : pos(i) = k]]

\* a plausible slip: keep="last", rows with equal values come out in the
\* reverse of their original order
nlargest_mut(rows, n, col) ==
    head(StableDesc([i \in DOMAIN rows |-> rows[Len(rows) + 1 - i]], col), n)

\* df.nlargest(n, col), keep="first"
nlargest(rows, n, col) == head(StableDesc(rows, col), n)

\* df.sort_values(col, ascending=False) with the default kind="quicksort",
\* which is not a stable sort: the result is some descending order of the
\* rows; the order of rows with equal values depends on the numpy build
RECURSIVE DescOrders(_, _, _)
DescOrders(rows, idx, col) ==
    IF idx = {} THEN {<<>>}
    ELSE LET m == CHOOSE v \in {rows[i][col] : i \in idx} :
                     \A i \in idx : rows[i][col] <= v
             top == {i \in idx : rows[i][col] = m}
         IN  UNION {{<<rows[i]>> \o rest : rest \in DescOrders(rows, idx \ {i}, col)} :
                      i \in top}

sort_values(rows, col) == DescOrders(rows, DOMAIN rows, col)

\* get_country_totals(metrics_df): the possible results
get_country_totals(m) ==
    IF m.rows = {} THEN {<<>>}
    ELSE LET all == MetricsSeq(m)
             two == [i \in DOMAIN all |->
                       [c \in {"Country", "Total Distinct Entities"} |-> all[i][c]]]
         IN  sort_values(two, "Total Distinct Entities")

\* get_program_totals(master_df): the possible results
get_program_totals(master) ==
    IF master.rows = {} \/ "Sanctions Program" \notin master.columns THEN {<<>>}
    ELSE LET g == GroupNunique(master.rows, "Sanctions Program", "ent_num")
             names == sorted(DOMAIN g)
             grouped == [i \in 1..Len(names) |->
                           ("Sanctions Program" :> names[i])
                              @@ ("Total Distinct Entities" :> g[names[i]])]
         IN  sort_values(grouped, "Total Distinct Entities")

\* the column col of the rows, as a list
tolist(rows, col) == [i \in DOMAIN rows |-> rows[i][col]]

\* a plausible slip: the filter applied also when nothing is selected
isin_if_selected_mut(rows, col, selected) ==
    SelectSeq(rows, LAMBDA r : r[col] \in Range(selected))

\* lines 277-278: if selected: df = df[df[col].isin(selected)]
isin_if_selected(rows, col, selected) ==
    IF selected # <<>>
    THEN SelectSeq(rows, LAMBDA r : r[col] \in Range(selected))
    ELSE rows

\* lines 123-136
prepare_filtered_master(master, countries, programs) ==
    IF master.rows = {} THEN NoTable
    ELSE LET byCountry == IF countries # <<>>
                          THEN {r \in master.rows : r["Country"] \in Range(countries)}
                          ELSE master.rows
             byProgram == IF programs # <<>> /\ "Sanctions Program" \in master.columns
                          THEN {r \in byCountry : r["Sanctions Program"] \in Range(programs)}
                          ELSE byCountry
         IN  [master EXCEPT !.rows = byProgram]

\* lines 221-223 and 241-243
program_options(master) ==
    LET found == IF "Sanctions Program" \in master.columns
                 THEN sorted({r["Sanctions Program"] : r \in master.rows} \ {NaN})
                 ELSE <<>>
    IN  IF found = <<>> THEN <<"(No Program)">> ELSE found

country_options(m) ==
    LET found == IF "Country" \in m.columns
                 THEN sorted({r["Country"] : r \in m.rows} \ {NaN})
                 ELSE <<>>
    IN  IF found = <<>> THEN <<"(No Country)">> ELSE found

\* a plausible slip: no fall-back to the selection when the intersection is empty
chosen_list_mut(selected, options, top) ==
    IF selected # <<>> /\ selected # options
    THEN SelectSeq(selected, LAMBDA p : p \in Range(top))
    ELSE top

\* lines 360-371, the same for programs and countries
chosen_list(selected, options, top) ==
    IF selected # <<>> /\ selected # options
    THEN LET intersection == SelectSeq(selected, LAMBDA p : p \in Range(top))
         IN  IF intersection # <<>> THEN intersection ELSE selected
    ELSE top

\* the rows of the pivot table in their order: the groupby keys, sorted
PivotSeq(pivot) ==
    LET n == Cardinality(pivot.rows)
        rank(v) == CHOOSE i \in DOMAIN SortedNames : SortedNames[i] = v
        before(a, b) ==
            \/ rank(a["Country"]) < rank(b["Country"])
            \/ /\ a["Country"] = b["Country"]
               /\ rank(a["Sanctions Program"]) < rank(b["Sanctions Program"])
    IN  [i \in 1..n |->
            CHOOSE r \in pivot.rows :
                Cardinality({q \in pivot.rows : before(q, r)}) = i - 1]

\* the selections the sidebar can hold: nothing (the clear box), all options
\* (the select-all box), or a multiselect of some options in the order chosen
Reverse(list) == [i \in DOMAIN list |-> list[Len(list) + 1 - i]]

SelectionsOf(options) ==
    {<<>>, options, Reverse(options)}
        \cup {<<o>> : o \in Range(options)}
        \cup (IF Len(options) > 2 THEN {<<options[1], options[Len(options)]>>} ELSE {})

\* line 261, the options offered; the larger ones act like 10 on these tables
TopNOptions == {5, 10}

\* master tables of several blocks
RECURSIVE RowsOfBlocks(_, _)
RowsOfBlocks(blocks, first) ==
    IF blocks = <<>> THEN {}
    ELSE BlockRows(Head(blocks), first, FALSE)
            \cup RowsOfBlocks(Tail(blocks), first + (Head(blocks).hi - Head(blocks).lo + 1))

TableOfBlocks(blocks) ==
    [columns |-> BaseColumns, rows |-> RowsOfBlocks(blocks, 0),
     dtype |-> "object", categories |-> {}]

\* six countries, each with its own program; the two smallest have as many
\* entities as each other
TiedSix ==
    TableOfBlocks(<<Block(1, 1, "individual", "China", "CHINA", 1),
                    Block(2, 2, "Entity", "Colombia", "COL", 1),
                    Block(3, 4, "Entity", "Iran", "IRAN", 1),
                    Block(5, 7, "individual", "Lebanon", "LEB", 1),
                    Block(8, 11, "Entity", "Mexico", "MEX", 1),
                    Block(12, 16, "Entity", "Russia", "RUSSIA", 1)>>)

\* six countries with 6, 5, 4, 3, 2 and 1 entities, two programs for the
\* first two
DistinctSix ==
    TableOfBlocks(<<Block(1, 6, "individual", "China", "CHINA", 1),
                    Block(7, 11, "Entity", "Colombia", "COL", 1),
                    Block(12, 15, "Entity", "Iran", "IRAN", 1),
                    Block(16, 18, "individual", "Lebanon", "LEB", 1),
                    Block(19, 20, "Entity", "Mexico", "MEX", 1),
                    Block(21, 21, "Entity", "Russia", "RUSSIA", 1)>>)

\* three countries sharing two programs, an entity listed in two countries, a
\* placeholder country and a row without a program
SharedPrograms ==
    TableOfBlocks(<<Block(1, 2, "individual", "Iran", "SDGT", 1),
                    Block(1, 1, "Entity", "Russia", "IRAN", 1),
                    Block(3, 3, "Entity", "-0-", "SDGT", 1),
                    Block(4, 4, "Entity", "Iran", NaN, 1)>>)

\* no row has a program
NoPrograms ==
    TableOfBlocks(<<Block(1, 2, "individual", "Iran", NaN, 1),
                    Block(3, 3, "Entity", "Russia", NaN, 1)>>)

FilterTables == {TiedSix, DistinctSix, SharedPrograms, NoPrograms}

InitFilter ==
    /\ upload \in FilterTables
    /\ pandasObserved = TRUE
    /\ pc = "start"
    /\ master_df = None
    /\ dash_master = None
    /\ metrics_df = None
    /\ aggregated_df = None
    /\ kpi_out = None
    /\ pv_pivot = None
    /\ dp_pivot = None
    /\ value = 0
    /\ rating = NoName
    /\ NoOther /\ NoCall /\ NoSources /\ NoFilter

filterOutputs == <<df_vis, top_countries, top_programs, chosen_countries, chosen_programs,
                   filtered_master_df, top_n, top_n_df>>

\* app.py lines 221-266: the sidebar's selections and Top-N choices
Sidebar ==
    /\ pc = "dashboard"
    /\ \E sp \in SelectionsOf(program_options(dash_master)),
          sc \in SelectionsOf(country_options(metrics_df)),
          nc \in TopNOptions, np \in TopNOptions :
            /\ selected_programs' = sp
            /\ selected_countries' = sc
            /\ top_n_country' = nc
            /\ top_n_program' = np
    /\ pc' = "sidebar"
    /\ UNCHANGED <<upload, pandasObserved, master_df, dash_master, metrics_df, aggregated_df,
                   kpi_out, pv_pivot, dp_pivot, value, rating>>
    /\ UNCHANGED <<otherVars, callVars, sourceVars, filterOutputs>>

\* app.py lines 275-287 applied to the rows of a table with the given columns:
\* the country filter, the program filter, the Top-N countries
filter_and_rank(rows, columns, countries, programs, n) ==
    LET byCountry == isin_if_selected(rows, "Country", countries)
        byProgram == IF programs # <<>> /\ "Sanctions Program" \in columns
                     THEN SelectSeq(byCountry,
                                    LAMBDA r : r["Sanctions Program"] \in Range(programs))
                     ELSE byCountry
    IN  IF "Total Distinct Entities" \in columns
        THEN nlargest(byProgram, n, "Total Distinct Entities")
        ELSE byProgram

\* app.py lines 275-287: df_vis; the Country Metrics table has no
\* Sanctions Program column, so line 279 never filters
FilterVisuals ==
    /\ pc = "sidebar"
    /\ df_vis' = filter_and_rank(MetricsSeq(metrics_df), metrics_df.columns,
                                 selected_countries, selected_programs, top_n_country)
    /\ pc' = "visuals"
    /\ UNCHANGED <<upload, pandasObserved, master_df, dash_master, metrics_df, aggregated_df,
                   kpi_out, pv_pivot, dp_pivot, value, rating>>
    /\ UNCHANGED <<otherVars, callVars, sourceVars, selected_countries, selected_programs, top_n_country,
                   top_n_program, top_countries, top_programs, chosen_countries,
                   chosen_programs, filtered_master_df, top_n, top_n_df>>

\* app.py lines 352-355: the Top-N lists
TopLists ==
    /\ pc = "visuals"
    /\ \E country_totals_df \in get_country_totals(metrics_df),
          program_totals_df \in get_program_totals(dash_master) :
            /\ top_countries' = tolist(head(country_totals_df, top_n_country), "Country")
            /\ top_programs' = tolist(head(program_totals_df, top_n_program),
                                      "Sanctions Program")
    /\ pc' = "toplists"
    /\ UNCHANGED <<upload, pandasObserved, master_df, dash_master, metrics_df, aggregated_df,
                   kpi_out, pv_pivot, dp_pivot, value, rating>>
    /\ UNCHANGED <<otherVars, callVars, sourceVars, selected_countries, selected_programs, top_n_country,
                   top_n_program, df_vis, chosen_countries, chosen_programs,
                   filtered_master_df, top_n, top_n_df>>

\* app.py lines 360-374: the chosen lists and the filtered master table
FilterMaster ==
    /\ pc = "toplists"
    /\ chosen_programs' = chosen_list(selected_programs, program_options(dash_master),
                                      top_programs)
    /\ chosen_countries' = chosen_list(selected_countries, country_options(metrics_df),
                                       top_countries)
    /\ filtered_master_df' = prepare_filtered_master(dash_master, chosen_countries',
                                                     chosen_programs')
    /\ pc' = "filtered"
    /\ UNCHANGED <<upload, pandasObserved, master_df, dash_master, metrics_df, aggregated_df,
                   kpi_out, pv_pivot, dp_pivot, value, rating>>
    /\ UNCHANGED <<otherVars, callVars, sourceVars, selected_countries, selected_programs, top_n_country,
                   top_n_program, df_vis, top_countries, top_programs, top_n, top_n_df>>

\* app.py lines 427-447: the pivot of the whole master table, sorted by
\* Total_SDNs, its first top_n rows (the columns add_risk_level_and_colors
\* adds at line 444 are left out)
PivotTopN ==
    /\ pc = "filtered"
    /\ LET pv_pivot_df_full == pv_prepare_pivot_data(dash_master)
       IN  /\ pv_pivot' = [arg |-> "dash_master", out |-> pv_pivot_df_full]
           /\ \E n \in TopNOptions,
                 ordered \in sort_values(PivotSeq(pv_pivot_df_full), "Total_SDNs") :
                   /\ top_n' = n
                   /\ top_n_df' = head(ordered, n)
    /\ pc' = "pivot"
    /\ UNCHANGED <<upload, pandasObserved, master_df, dash_master, metrics_df, aggregated_df,
                   kpi_out, dp_pivot, value, rating>>
    /\ UNCHANGED <<otherVars, callVars, sourceVars, selected_countries, selected_programs, top_n_country,
                   top_n_program, df_vis, top_countries, top_programs, chosen_countries,
                   chosen_programs, filtered_master_df>>

NextFilter ==
    \/ RunPipeline
    \/ Dashboard
    \/ Sidebar
    \/ FilterVisuals
    \/ TopLists
    \/ FilterMaster
    \/ PivotTopN

SpecFilter == InitFilter /\ [][NextFilter]_vars

----------------------------------------------------------------------------
(* app.py 275-287 applied a second time, to df_vis itself *)

FilterVisualsAgain ==
    /\ pc = "visuals"
    /\ df_vis_again' = filter_and_rank(df_vis, metrics_df.columns, selected_countries,
                                       selected_programs, top_n_country)
    /\ pc' = "again"
    /\ UNCHANGED <<upload, pandasObserved, master_df, dash_master, metrics_df, aggregated_df,
                   kpi_out, pv_pivot, dp_pivot, value, rating>>
    /\ UNCHANGED <<callVars, sourceVars, filterVars>>
    /\ UNCHANGED <<labelVars, requestVars, frameVars, cacheVars>>

NextAgain ==
    \/ RunPipeline
    \/ Dashboard
    \/ Sidebar
    \/ FilterVisuals
    \/ FilterVisualsAgain

SpecAgain == InitFilter /\ [][NextAgain]_vars

----------------------------------------------------------------------------
(* Score-to-label functions: app.py 493-515, geo_sdn_risk_map.py 79-84 and *)
(* 132-137, pivot_risk_visuals.py 28-45 and 59-71                          *)

\* largest mean score given to the functions, in hundredths
MaxScore == 700

\* the keys of RISK_SCORE_MAP in the dict's insertion order (config.py 54-61)
TierOrder == <<"Low", "Medium Low", "Medium", "Medium High", "High", "Critical">>

\* list(RISK_SCORE_MAP.values())
RiskScoreValues == [i \in 1..Len(TierOrder) |-> RISK_SCORE_MAP[TierOrder[i]]]

Abs(x) == IF x < 0 THEN 0 - x ELSE x

\* a plausible slip: a later value replaces the best one on an equal key too
Closer_mut(v, best, score) ==
    score # NumNaN /\ Abs(v * 100 - score) <= Abs(best * 100 - score)

\* key(v) < key(best) inside min(..., key=lambda v: abs(v - score)); with a NaN
\* score every key is NaN and no comparison holds
Closer(v, best, score) ==
    score # NumNaN /\ Abs(v * 100 - score) < Abs(best * 100 - score)

\* min(values, key=...): the first value whose key is minimal
RECURSIVE MinNearest(_, _, _)
MinNearest(values, best, score) ==
    IF values = <<>> THEN best
    ELSE MinNearest(Tail(values),
                    IF Closer(Head(values), best, score) THEN Head(values) ELSE best,
                    score)

\* [k for k, v in RISK_SCORE_MAP.items() if v == nearest][0]
FirstKeyOf(nearest) ==
    TierOrder[CHOOSE i \in 1..Len(TierOrder) :
                /\ RISK_SCORE_MAP[TierOrder[i]] = nearest
                /\ \A j \in 1..(i - 1) : RISK_SCORE_MAP[TierOrder[j]] # nearest]

\* app.py 497
nearest_score(score) == MinNearest(Tail(RiskScoreValues), Head(RiskScoreValues), score)

\* app.py 498
risk_level(score) == FirstKeyOf(nearest_score(score))

\* geo_sdn_risk_map.py 79-84; the arithmetic on a float never raises, so the
\* except branch ('Unknown') is not taken
program_risk_label(score) ==
    FirstKeyOf(MinNearest(Tail(RiskScoreValues), Head(RiskScoreValues), score))

\* geo_sdn_risk_map.py 132-137
score_to_label(x) ==
    FirstKeyOf(MinNearest(Tail(RiskScoreValues), Head(RiskScoreValues), x))

\* pivot_risk_visuals.py 28-45
map_risk_score_to_level(score) ==
    IF score = NumNaN THEN "Unknown"
    ELSE IF score < 150 THEN "Low"
    ELSE IF score < 250 THEN "Medium Low"
    ELSE IF score < 350 THEN "Medium"
    ELSE IF score < 450 THEN "Medium High"
    ELSE IF score < 550 THEN "High"
    ELSE "Critical"

\* pivot_risk_visuals.py 59-71 (inside add_risk_level_and_colors); on a NaN
\* score no comparison holds and the last branch is taken
map_score_to_level(score) ==
    IF score # NumNaN /\ score >= 550 THEN "Critical"
    ELSE IF score # NumNaN /\ score >= 450 THEN "High"
    ELSE IF score # NumNaN /\ score >= 350 THEN "Medium High"
    ELSE IF score # NumNaN /\ score >= 250 THEN "Medium"
    ELSE IF score # NumNaN /\ score >= 150 THEN "Medium Low"
    ELSE "Low"

\* mean scores in hundredths, and the missing mean
ScoreInputs == (0..MaxScore) \cup {NumNaN}

InitLabel ==
    /\ avg_risk_score \in ScoreInputs
    /\ labels = <<>>
    /\ upload = NoTable
    /\ pandasObserved = TRUE
    /\ pc = "cell"
    /\ master_df = None
    /\ dash_master = None
    /\ metrics_df = None
    /\ aggregated_df = None
    /\ kpi_out = None
    /\ pv_pivot = None
    /\ dp_pivot = None
    /\ value = 0
    /\ rating = NoName
    /\ NoCall /\ NoSources /\ NoFilter
    /\ NoIdem /\ NoRequest /\ NoFrame /\ NoCache

\* one function applied to the cell's mean score, its label recorded
Labelled(site, label) ==
    /\ pc = "cell"
    /\ site \notin DOMAIN labels
    /\ labels' = labels @@ (site :> label)
    /\ UNCHANGED <<upload, pandasObserved, pc, master_df, dash_master, metrics_df,
                   aggregated_df, kpi_out, pv_pivot, dp_pivot, value, rating,
                   avg_risk_score>>
    /\ UNCHANGED <<callVars, sourceVars, filterVars>>
    /\ UNCHANGED <<idemVars, requestVars, frameVars, cacheVars>>

\* app.py 497-498
NearestLabel == Labelled("risk_level", risk_level(avg_risk_score))
\* geo_sdn_risk_map.py 88
ProgramRiskLabel == Labelled("program_risk_label", program_risk_label(avg_risk_score))
\* geo_sdn_risk_map.py 139
ScoreToLabel == Labelled("score_to_label", score_to_label(avg_risk_score))
\* app.py 515
MapRiskScoreToLevel ==
    Labelled("map_risk_score_to_level", map_risk_score_to_level(avg_risk_score))
\* pivot_risk_visuals.py 73 (app.py 444)
MapScoreToLevel == Labelled("map_score_to_level", map_score_to_level(avg_risk_score))

NextLabel ==
    \/ NearestLabel
    \/ ProgramRiskLabel
    \/ ScoreToLabel
    \/ MapRiskScoreToLevel
    \/ MapScoreToLevel

SpecLabel == InitLabel /\ [][NextLabel]_vars

----------------------------------------------------------------------------
(* The request through the report: app.py 292-417 *)

\* app.py 138-146; pd.DataFrame() is the table without columns and rows
prepare_pivot_and_heatmap_df(filtered_master) ==
    IF filtered_master.rows = {} THEN NoTable
    ELSE pv_prepare_pivot_data(filtered_master)

\* uploads that hold the three columns the uploader asks for (app.py 193), with
\* and without a Sanctions Program column
RequestTables ==
    FilterTables
    \cup {WithoutColumns(t, {"Sanctions Program"}) : t \in {TiedSix, SharedPrograms}}

InitRequest ==
    /\ upload \in RequestTables
    /\ pandasObserved = TRUE
    /\ pc = "start"
    /\ master_df = None
    /\ dash_master = None
    /\ metrics_df = None
    /\ aggregated_df = None
    /\ kpi_out = None
    /\ pv_pivot = None
    /\ dp_pivot = None
    /\ value = 0
    /\ rating = NoName
    /\ NoOther /\ NoCall /\ NoSources /\ NoFilter

\* app.py 292-337: the KPI / KRI metrics, the data story and the charts of
\* df_vis are written to the page
RenderKpis ==
    /\ pc = "visuals"
    /\ "kpis" \notin rendered
    /\ kpi_out' = compute_kpis_kris(metrics_df)
    /\ rendered' = IF IsError(kpi_out') THEN rendered
                   ELSE rendered \cup {"kpis", "charts"}
    /\ pc' = IF IsError(kpi_out') THEN "aborted" ELSE pc
    /\ UNCHANGED <<upload, pandasObserved, master_df, dash_master, metrics_df, aggregated_df,
                   pv_pivot, dp_pivot, value, rating, pv_pivot_df>>
    /\ UNCHANGED <<callVars, sourceVars, filterVars>>
    /\ UNCHANGED <<labelVars, idemVars, frameVars, cacheVars>>

\* app.py 345-355, reached after the lines above
TopListsOfRequest == "kpis" \in rendered /\ TopLists

\* app.py 377-391: the Program Pivot of the filtered master table and its
\* charts; an exception of the aggregation is not caught and ends the script
ProgramAggregation ==
    /\ pc = "filtered"
    /\ pv_pivot_df' = prepare_pivot_and_heatmap_df(filtered_master_df)
    /\ IF IsError(pv_pivot_df')
       THEN pc' = "aborted" /\ UNCHANGED rendered
       ELSE pc' = "aggregated" /\ rendered' = rendered \cup {"program_bar"}
    /\ UNCHANGED <<upload, pandasObserved, master_df, dash_master, metrics_df, aggregated_df,
                   kpi_out, pv_pivot, dp_pivot, value, rating>>
    /\ UNCHANGED <<callVars, sourceVars, filterVars>>
    /\ UNCHANGED <<labelVars, idemVars, frameVars, cacheVars>>

\* app.py 400-417: the report of df_vis, its preview and its download button
Report ==
    /\ pc = "aggregated"
    /\ rendered' = rendered \cup {"report"}
    /\ pc' = "reported"
    /\ UNCHANGED <<upload, pandasObserved, master_df, dash_master, metrics_df, aggregated_df,
                   kpi_out, pv_pivot, dp_pivot, value, rating, pv_pivot_df>>
    /\ UNCHANGED <<callVars, sourceVars, filterVars>>
    /\ UNCHANGED <<labelVars, idemVars, frameVars, cacheVars>>

NextRequest ==
    \/ RunPipeline
    \/ Dashboard
    \/ Sidebar
    \/ FilterVisuals
    \/ RenderKpis
    \/ TopListsOfRequest
    \/ FilterMaster
    \/ ProgramAggregation
    \/ Report

SpecRequest == InitRequest /\ [][NextRequest]_vars

----------------------------------------------------------------------------
(* Direct calls on DataFrame objects: which object each function writes *)

\* a plausible slip: no copy, the name stays bound to the caller's table
copy_mut(h, ref) == [heap |-> h, ref |-> ref]

\* df.copy(): a new object holding the same table
copy(h, ref) == [heap |-> Append(h, h[ref]), ref |-> Len(h) + 1]

\* a table built by groupby / concat / boolean indexing: a new object
new(h, t) == [heap |-> Append(h, t), ref |-> Len(h) + 1]

\* df[col] = ... / df.loc[mask, col] = ...: the object ref now holds t
write(h, ref, t) == [h EXCEPT ![ref] = t]

Returned(h, ref) == [heap |-> h, ret |-> ref, raised |-> None]
Raised(h, e) == [heap |-> h, ret |-> 0, raised |-> e]

\* data_processor.py 69-85
clean_invalid_countries_on(h, df) ==
    IF "Country" \notin h[df].columns THEN Returned(h, df)
    ELSE LET c == copy(h, df)
         IN  Returned(write(c.heap, c.ref, clean_invalid_countries(c.heap[c.ref])), c.ref)

\* data_processor.py 108-131: df is only read; metrics comes from pd.concat
compute_country_risk_metrics_on(h, master_ofac_df) ==
    LET c == copy(h, master_ofac_df)
        out == compute_country_risk_metrics(c.heap[c.ref])
    IN  IF IsError(out) THEN Raised(c.heap, out)
        ELSE LET metrics == new(c.heap, out)
             IN  Returned(metrics.heap, metrics.ref)

\* data_processor.py 136-165: metrics_df is read, grouped = metrics_df.copy()
\* gets the three columns (the grouped branch raises before any write)
compute_kpis_kris_on(h, m) ==
    LET out == compute_kpis_kris(h[m])
    IN  IF IsError(out) THEN Raised(h, out)
        ELSE LET grouped == copy(h, m)
             IN  Returned(write(grouped.heap, grouped.ref, out.grouped), grouped.ref)

\* data_processor.py 170-217: df = master_ofac_df.copy(); pivot_df comes from
\* groupby and gets the columns
dp_prepare_pivot_data_on(h, master_ofac_df, observed) ==
    LET c == copy(h, master_ofac_df)
        out == dp_prepare_pivot_data(c.heap[c.ref], observed)
    IN  IF IsError(out) THEN Raised(c.heap, out)
        ELSE LET pivot_df == new(c.heap, out)
             IN  Returned(pivot_df.heap, pivot_df.ref)

\* pivot_risk_visuals.py 96-137: df = df[cols_to_use].copy(); pivot_df comes
\* from groupby
pv_prepare_pivot_data_on(h, df) ==
    LET out == pv_prepare_pivot_data(h[df])
    IN  IF IsError(out) THEN Raised(h, out)
        ELSE LET pivot_df == new(h, out)
             IN  Returned(pivot_df.heap, pivot_df.ref)

\* pivot_risk_visuals.py 73: the Risk_Level column
add_risk_level(t) ==
    [t EXCEPT !.columns = @ \cup {"Risk_Level"},
              !.rows = {[c \in DOMAIN r \cup {"Risk_Level"} |->
                            IF c = "Risk_Level"
                            THEN map_score_to_level(r["Avg_Risk_Score"])
                            ELSE r[c]] : r \in @}]

\* pivot_risk_visuals.py 47-93; the first of the two values returned
add_risk_level_and_colors_on(h, pivot_df) ==
    IF "Avg_Risk_Score" \notin h[pivot_df].columns THEN Returned(h, pivot_df)
    ELSE LET df == copy(h, pivot_df)
         IN  Returned(write(df.heap, df.ref, add_risk_level(df.heap[df.ref])), df.ref)

\* app.py 123-136: pd.DataFrame() for an empty table, else df = master_df.copy()
\* and one new object per filter
prepare_filtered_master_on(h, master, top_countries_, top_programs_) ==
    IF h[master].rows = {}
    THEN LET empty == new(h, NoTable) IN Returned(empty.heap, empty.ref)
    ELSE LET df == copy(h, master)
         IN  IF top_countries_ # <<>> /\ "Country" \notin h[master].columns
             THEN Raised(df.heap, KeyError("Country"))
             ELSE LET out == new(df.heap,
                                 prepare_filtered_master(h[master], top_countries_,
                                                         top_programs_))
                  IN  IF top_countries_ = <<>>
                         /\ ~(top_programs_ # <<>> /\ "Sanctions Program" \in h[master].columns)
                      THEN Returned(df.heap, df.ref)
                      ELSE Returned(out.heap, out.ref)

\* the tables given to the direct calls: master tables (some lacking a column),
\* their Country Metrics tables and their pivot tables (some lacking the score)
FrameTables ==
    {WithoutColumns(t, drop) :
        t \in CallBase, drop \in {{}, {"Country"}, {"Sanctions Program"}}}
    \cup {compute_country_risk_metrics(t) : t \in CallBase}
    \cup {pv_prepare_pivot_data(t) : t \in CallBase}
    \cup {WithoutColumns(pv_prepare_pivot_data(t), {"Avg_Risk_Score"}) : t \in CallBase}

InitFrame ==
    /\ upload \in FrameTables
    /\ heap = <<upload>>
    /\ frame = None
    /\ pandasObserved = TRUE
    /\ pc = "direct"
    /\ master_df = None
    /\ dash_master = None
    /\ metrics_df = None
    /\ aggregated_df = None
    /\ kpi_out = None
    /\ pv_pivot = None
    /\ dp_pivot = None
    /\ value = 0
    /\ rating = NoName
    /\ NoCall /\ NoSources /\ NoFilter
    /\ NoLabel /\ NoIdem /\ NoRequest /\ NoCache

\* fn(heap[1]) has returned or raised
Call(fn, out) ==
    /\ pc = "direct"
    /\ frame = None
    /\ heap' = out.heap
    /\ frame' = [fn |-> fn, arg |-> 1, ret |-> out.ret, raised |-> out.raised]
    /\ UNCHANGED <<upload, pandasObserved, pc, master_df, dash_master, metrics_df,
                   aggregated_df, kpi_out, pv_pivot, dp_pivot, value, rating>>
    /\ UNCHANGED <<callVars, sourceVars, filterVars>>
    /\ UNCHANGED <<labelVars, idemVars, requestVars, cacheVars>>

CallCleanInvalidCountries ==
    Call("clean_invalid_countries", clean_invalid_countries_on(heap, 1))
CallComputeCountryRiskMetrics ==
    Call("compute_country_risk_metrics", compute_country_risk_metrics_on(heap, 1))
CallComputeKpisKris ==
    Call("compute_kpis_kris", compute_kpis_kris_on(heap, 1))
CallPreparePivotDataDP ==
    Call("data_processor.prepare_pivot_data",
         dp_prepare_pivot_data_on(heap, 1, pandasObserved))
CallPreparePivotDataPV ==
    Call("pivot_risk_visuals.prepare_pivot_data", pv_prepare_pivot_data_on(heap, 1))
CallAddRiskLevelAndColors ==
    Call("add_risk_level_and_colors", add_risk_level_and_colors_on(heap, 1))
CallPrepareFilteredMaster ==
    \E countries \in {<<>>, <<"Iran">>}, programs \in {<<>>, <<"SDGT">>} :
        Call("prepare_filtered_master",
             prepare_filtered_master_on(heap, 1, countries, programs))

NextFrame ==
    \/ CallCleanInvalidCountries
    \/ CallComputeCountryRiskMetrics
    \/ CallComputeKpisKris
    \/ CallPreparePivotDataDP
    \/ CallPreparePivotDataPV
    \/ CallAddRiskLevelAndColors
    \/ CallPrepareFilteredMaster

SpecFrame == InitFrame /\ [][NextFrame]_vars

----------------------------------------------------------------------------
(* app.py 73-92: load_metrics behind st.cache_data; app.py 192-199, 557-561 *)

\* (None, None, None)
NoneTriple == [metrics_df |-> None, aggregated_df |-> None, master_df |-> None]

\* os.path.exists(path)
exists(file) == file.kind # "absent"

\* lines 90-91: every exception of the body is caught and (None, None, None)
\* returned; otherwise the three tables (lines 79, 88)
three_or_none(out) ==
    IF IsError(out) THEN NoneTriple
    ELSE [metrics_df |-> out.metrics_df, aggregated_df |-> out.aggregated_df,
          master_df |-> out.master_df]

\* the body of load_metrics, run on the files as they are now; an uploaded
\* file that is no CSV makes pd.read_csv raise, and every exception is caught
\* at line 90
load_metrics_uncached(uploaded_file, use_defaults, files) ==
    IF uploaded_file # NoPath
    THEN IF uploaded_file.kind # "csv" THEN NoneTriple
         ELSE three_or_none(run_ofac_data_pipeline(uploaded_file.table))
    ELSE IF use_defaults /\ exists(files.sdn_file)
    THEN three_or_none(run_ofac_data_pipeline_sources(
                        files.sdn_file,
                        IF exists(files.add_file) THEN files.add_file ELSE NoPath,
                        IF exists(files.map_file) THEN files.map_file ELSE NoPath))
    ELSE NoneTriple

\* st.cache_data: the key is made of the call's arguments only
cache_hit(c, key) == key \in DOMAIN c

\* the value the body returned is stored under the key and handed back
store(c, key, out) == [cache |-> c @@ (key :> out), out |-> out]

\* @st.cache_data def load_metrics: the stored value on a hit, else the body's
\* value, which is stored (a returned (None, None, None) as well)
load_metrics(c, uploaded_file, use_defaults, files) ==
    LET key == [uploaded_file |-> uploaded_file, use_defaults |-> use_defaults]
    IN  IF cache_hit(c, key)
        THEN [cache |-> c, out |-> c[key]]
        ELSE store(c, key, load_metrics_uncached(uploaded_file, use_defaults, files))

\* line 197: metrics_df is None or metrics_df.empty or master_df is None or
\* master_df.empty
NoMetrics(out) ==
    \/ out.metrics_df = None
    \/ out.master_df = None
    \/ out.metrics_df.rows = {}
    \/ out.master_df.rows = {}

\* the entity table without its Country column: loadable only when joined
\* with the address table
SdnNoCountry == WithoutColumns(SdnBase, {"Country"})

DiskStates ==
    [sdn_file : {AbsentFile, CsvFile(SdnBase), CsvFile(SdnNoCountry)},
     add_file : {AbsentFile, CsvFile(AddBase)},
     map_file : {AbsentFile}]

Uploads == {NoPath, CsvFile(SdnBase), UnreadableFile}

InitCache ==
    /\ disk \in DiskStates
    /\ session = None
    /\ cache = <<>>
    /\ served = None
    /\ upload = NoTable
    /\ pandasObserved = TRUE
    /\ pc = "idle"
    /\ master_df = None
    /\ dash_master = None
    /\ metrics_df = None
    /\ aggregated_df = None
    /\ kpi_out = None
    /\ pv_pivot = None
    /\ dp_pivot = None
    /\ value = 0
    /\ rating = NoName
    /\ NoCall /\ NoSources /\ NoFilter
    /\ NoLabel /\ NoIdem /\ NoRequest /\ NoFrame

\* a request (script run) with the sidebar's upload and 'use defaults': the
\* load of tab 1 (line 196) and, unless the script stopped at line 199, the
\* reload of tab 3 (line 558)
Request(uploaded, use_defaults) ==
    /\ session' = [uploaded |-> uploaded, use_defaults |-> use_defaults]
    /\ \E tab1 \in {load_metrics(cache, uploaded, use_defaults, disk)} :
          IF NoMetrics(tab1.out)
          THEN /\ cache' = tab1.cache
               /\ served' = [tab1 |-> tab1.out, tab3 |-> None]
          ELSE \E tab3 \in {load_metrics(tab1.cache, uploaded, use_defaults, disk)} :
                  /\ cache' = tab3.cache
                  /\ served' = [tab1 |-> tab1.out, tab3 |-> tab3.out]
    /\ pc' = "served"
    /\ UNCHANGED <<upload, pandasObserved, master_df, dash_master, metrics_df,
                   aggregated_df, kpi_out, pv_pivot, dp_pivot, value, rating, disk>>
    /\ UNCHANGED <<callVars, sourceVars, filterVars>>
    /\ UNCHANGED <<labelVars, idemVars, requestVars, frameVars>>

\* the default source files are replaced, added or removed between requests
ChangeFiles ==
    /\ \E files \in DiskStates \ {disk} : disk' = files
    /\ pc' = "idle"
    /\ UNCHANGED <<upload, pandasObserved, master_df, dash_master, metrics_df,
                   aggregated_df, kpi_out, pv_pivot, dp_pivot, value, rating,
                   session, cache, served>>
    /\ UNCHANGED <<callVars, sourceVars, filterVars>>
    /\ UNCHANGED <<labelVars, idemVars, requestVars, frameVars>>

NextCache ==
    \/ \E uploaded \in Uploads, use_defaults \in BOOLEAN : Request(uploaded, use_defaults)
    \/ ChangeFiles

SpecCache == InitCache /\ [][NextCache]_vars

----------------------------------------------------------------------------
(* Properties *)

\* the rows of the master table the metrics were computed from that carry country c
MasterRowsOf(c) == {m \in master_df.rows : m["Country"] = c}

IndividualEnts(c) == {m["ent_num"] : m \in {x \in MasterRowsOf(c) : is_individual(x)}}
OtherEnts(c) == {m["ent_num"] : m \in {x \in MasterRowsOf(c) : ~is_individual(x)}}

MetricsReady == metrics_df # None

\* C1: apply_risk_rating maps a count c >= 0 to exactly one of the six tiers, by
\* the contiguous intervals c<=200 Low, 200<c<=400 Medium Low, 400<c<=600 Medium,
\* 600<c<=800 Medium High, 800<c<=1000 High, c>1000 Critical, and the tier's
\* score is non-decreasing in c.
C1_RatingIntervals ==
    rating # NoName =>
        /\ rating \in Tiers
        /\ (rating = "Low") <=> (value <= 200)
        /\ (rating = "Medium Low") <=> (200 < value /\ value <= 400)
        /\ (rating = "Medium") <=> (400 < value /\ value <= 600)
        /\ (rating = "Medium High") <=> (600 < value /\ value <= 800)
        /\ (rating = "High") <=> (800 < value /\ value <= 1000)
        /\ (rating = "Critical") <=> (value > 1000)
        /\ RISK_SCORE_MAP[rating] \in 1..6
        /\ \A d \in 0..value :
              RISK_SCORE_MAP[apply_risk_rating(d)] <= RISK_SCORE_MAP[rating]

C1_Witness == value = 1000 /\ rating = "High"

\* C2 as stated: in every Country Metrics row, Distinct Individuals + Distinct
\* Non-Individuals equals Total Distinct Entities.
C2_SumEqualsTotal ==
    MetricsReady =>
        \A r \in metrics_df.rows :
            r["Distinct Individuals"] + r["Distinct Non-Individuals"]
                = r["Total Distinct Entities"]

\* C2 amended: in every Country Metrics row, Distinct Individuals + Distinct
\* Non-Individuals equals Total Distinct Entities plus the number of the
\* country's entity identifiers that occur both on an individual row and on a
\* non-individual row; the sum equals the total exactly when there is none.
C2_SumCountsTwiceTyped ==
    MetricsReady =>
        \A r \in metrics_df.rows :
            LET both == IndividualEnts(r["Country"]) \cap OtherEnts(r["Country"])
            IN  r["Distinct Individuals"] + r["Distinct Non-Individuals"]
                    = r["Total Distinct Entities"] + Cardinality(both)

C2_Witness ==
    /\ MetricsReady
    /\ \E r \in metrics_df.rows :
          /\ IndividualEnts(r["Country"]) \cap OtherEnts(r["Country"]) # {}
          /\ r["Distinct Individuals"] + r["Distinct Non-Individuals"]
                > r["Total Distinct Entities"]

\* C3: in every Country Metrics row, each of the three ratings is
\* apply_risk_rating of the row's own count of that dimension, its score is
\* RISK_SCORE_MAP[rating] and its colour RISK_COLOR_MAP[rating]; the two maps
\* are one-to-one over the six tiers, the scores being 1..6.
Injective(f) == \A a, b \in DOMAIN f : f[a] = f[b] => a = b

C4_NoPhantomCountry ==
    MetricsReady =>
        \A r \in metrics_df.rows : MasterRowsOf(r["Country"]) # {}

C4_Witness ==
    /\ MetricsReady
    /\ \E m \in upload.rows : m["Country"] = "-0-"
    /\ \E r \in metrics_df.rows : r["Country"] = "Unknown SDN"
    /\ \E r \in metrics_df.rows : r["Country"] = "Iran"

\* C5: every Country value that occurs in the master table (a missing Country
\* is no value) has exactly one row in Country Metrics, and a country with no
\* row of one entity type keeps its row, with that dimension's count 0.
C5_OneRowPerCountry ==
    MetricsReady =>
        \A c \in {m["Country"] : m \in master_df.rows} \ {NaN} :
            /\ Cardinality({r \in metrics_df.rows : r["Country"] = c}) = 1
            /\ \A r \in metrics_df.rows :
                  r["Country"] = c =>
                     /\ IndividualEnts(c) = {} => r["Distinct Individuals"] = 0
                     /\ OtherEnts(c) = {} => r["Distinct Non-Individuals"] = 0

C5_Witness ==
    /\ MetricsReady
    /\ \E r \in metrics_df.rows :
          /\ r["Country"] = "Russia"
          /\ IndividualEnts("Russia") = {}
          /\ r["Distinct Individuals"] = 0
          /\ r["Total Distinct Entities"] > 0

\* the pivot calls that returned a table
PvDone == pv_pivot # None /\ ~IsError(pv_pivot.out)
DpDone == dp_pivot # None /\ ~IsError(dp_pivot.out)

\* the rows of the table a pivot call was given that belong to a group
GroupRows(src, c, p) == PairRows(Arg(src).rows, c, p)
GroupEnts(src, c, p) == {m["ent_num"] : m \in GroupRows(src, c, p)}

\* C6: every row of a Program Pivot table, from either implementation and also
\* on the dashboard's categorical copy, is a (Country, Sanctions Program) pair
\* that occurs on a row of the table given, with an entity count >= 1.
C6_NoEmptyPair ==
    /\ PvDone =>
         \A r \in pv_pivot.out.rows :
            /\ GroupRows(pv_pivot.arg, r["Country"], r["Sanctions Program"]) # {}
            /\ r["Total_SDNs"] >= 1
    /\ DpDone =>
         \A r \in dp_pivot.out.rows :
            /\ GroupRows(dp_pivot.arg, r["Country"], r["Sanctions Program"]) # {}
            /\ r["SDN_Count"] >= 1

\* C7: the entity count of every pivot row (SDN_Count, Total_SDNs) is the number
\* of distinct ent_num values among the group's rows, on either path, and the
\* two implementations give the same count for the same group of the same table.
C7_CountIsDistinctEntities ==
    /\ PvDone =>
         \A r \in pv_pivot.out.rows :
            r["Total_SDNs"]
               = Cardinality(GroupEnts(pv_pivot.arg, r["Country"], r["Sanctions Program"]))
    /\ DpDone =>
         \A r \in dp_pivot.out.rows :
            r["SDN_Count"]
               = Cardinality(GroupEnts(dp_pivot.arg, r["Country"], r["Sanctions Program"]))
    /\ (PvDone /\ DpDone /\ pv_pivot.arg = dp_pivot.arg) =>
         \A r \in pv_pivot.out.rows, q \in dp_pivot.out.rows :
            (r["Country"] = q["Country"] /\ r["Sanctions Program"] = q["Sanctions Program"])
               => r["Total_SDNs"] = q["SDN_Count"]

\* the score of a pivot row as the claim gives it: without Risk_Score the tier
\* score of the group's own distinct entity count; with Risk_Score the mean of
\* the group's row scores, to the nearest 1/scale (result in hundredths)
NearestMean(v, rows, scale) ==
    /\ rows # {}
    /\ v # NumNaN
    /\ v % (100 \div scale) = 0
    /\ LET u == v \div (100 \div scale)
           n == Cardinality(rows)
           d == u * n - scale * SumCol(rows, "Risk_Score")
       IN  2 * d <= n /\ 2 * (0 - d) <= n

ClaimedScore(src, c, p, v, scale) ==
    IF "Risk_Score" \notin Arg(src).columns
    THEN /\ v = 100 * RISK_SCORE_MAP[apply_risk_rating(Cardinality(GroupEnts(src, c, p)))]
         /\ v \in {100 * k : k \in 1..6}
    ELSE NearestMean(v, GroupRows(src, c, p), scale)

\* C8: without a Risk_Score column every pivot row's Avg_Risk_Score is the tier
\* score (1..6) of apply_risk_rating of the group's own distinct entity count,
\* the same in both implementations; with Risk_Score it is the group's mean row
\* score (to the implementation's rounding); it is always a number.
C8_ScoreOfOwnGroup ==
    /\ PvDone =>
         \A r \in pv_pivot.out.rows :
            ClaimedScore(pv_pivot.arg, r["Country"], r["Sanctions Program"],
                         r["Avg_Risk_Score"], 10)
    /\ DpDone =>
         \A r \in dp_pivot.out.rows :
            ClaimedScore(dp_pivot.arg, r["Country"], r["Sanctions Program"],
                         r["Avg_Risk_Score"], 100)
    /\ (PvDone /\ DpDone /\ pv_pivot.arg = dp_pivot.arg
          /\ "Risk_Score" \notin Arg(pv_pivot.arg).columns) =>
         \A r \in pv_pivot.out.rows, q \in dp_pivot.out.rows :
            (r["Country"] = q["Country"] /\ r["Sanctions Program"] = q["Sanctions Program"])
               => r["Avg_Risk_Score"] = q["Avg_Risk_Score"]

\* C9: data_processor.prepare_pivot_data returns exactly the columns Country,
\* Sanctions Program, SDN_Count, Avg_Risk_Score, Risk_Color on both paths, and
\* pivot_risk_visuals.prepare_pivot_data exposes the same five: country,
\* program, an entity count, Avg_Risk_Score and a display colour.
C9_SameFiveColumns ==
    /\ DpDone =>
         dp_pivot.out.columns
            = {"Country", "Sanctions Program", "SDN_Count", "Avg_Risk_Score", "Risk_Color"}
    /\ PvDone =>
         /\ {"Country", "Sanctions Program", "Avg_Risk_Score"} \subseteq pv_pivot.out.columns
         /\ pv_pivot.out.columns \cap {"SDN_Count", "Total_SDNs"} # {}
         /\ "Risk_Color" \in pv_pivot.out.columns
         /\ Cardinality(pv_pivot.out.columns) = 5

\* C10: compute_kpis_kris over the Country Metrics table M returns the sum of
\* M's totals, the largest total, the number of rows rated Critical on the total,
\* and (sum of non-individual counts) / (sum of totals) as a percentage (to one
\* decimal) when the sum of totals is > 0.
RECURSIVE SumOverCountries(_, _, _)
SumOverCountries(m, cs, col) ==
    IF cs = {} THEN 0
    ELSE LET c == CHOOSE x \in cs : TRUE
             r == CHOOSE x \in m.rows : x["Country"] = c
         IN  r[col] + SumOverCountries(m, cs \ {c}, col)

KpisDone == kpi_out # None /\ ~IsError(kpi_out)

C10_KpisAreReductions ==
    KpisDone =>
        LET m == metrics_df
            cs == {r["Country"] : r \in m.rows}
            total == SumOverCountries(m, cs, "Total Distinct Entities")
            non == SumOverCountries(m, cs, "Distinct Non-Individuals")
            ratio == kpi_out.kris["Non-Individual Entity Ratio"]
        IN  /\ kpi_out.kpis["Total Distinct Entities"] = total
            /\ \E r \in m.rows :
                  kpi_out.kpis["Top SDN Concentration"] = r["Total Distinct Entities"]
            /\ \A r \in m.rows :
                  r["Total Distinct Entities"] <= kpi_out.kpis["Top SDN Concentration"]
            /\ kpi_out.kris["Critical Risk Jurisdictions"]
                  = Cardinality({c \in cs : \E r \in m.rows :
                        r["Country"] = c /\ r["Rating - Personal & Non-Personal"] = "Critical"})
            /\ total > 0 =>
                  /\ ratio.text = "round1%"
                  /\ 2 * (ratio.tenths * total - 1000 * non) <= total
                  /\ 2 * (1000 * non - ratio.tenths * total) <= total

C10_Witness ==
    /\ KpisDone
    /\ Cardinality(metrics_df.rows) >= 2
    /\ kpi_out.kris["Critical Risk Jurisdictions"] = 1
    /\ kpi_out.kpis["Top SDN Concentration"] < kpi_out.kpis["Total Distinct Entities"]
    /\ kpi_out.kris["Non-Individual Entity Ratio"].tenths \in 1..999

\* C11: the 'Total Distinct Entities' KPI equals the number of unique ent_num
\* values of the master table across all jurisdictions, also when the same
\* entity has rows in more than one country.
C11_TotalIsUniqueEntities ==
    KpisDone =>
        kpi_out.kpis["Total Distinct Entities"]
            = Cardinality({m["ent_num"] : m \in master_df.rows})

\* C16: after country normalization every row that carried the placeholder
\* '-0-' has Country "Unknown" and no row keeps '-0-', in the pipeline's master
\* table and in the dashboard's categorical copy of it.
PlaceholderRows == {u["index"] : u \in {x \in upload.rows : x["Country"] = "-0-"}}

C16_PlaceholderBecomesUnknown ==
    /\ (master_df # None /\ upload # None) =>
         \A m \in master_df.rows :
            /\ m["Country"] # "-0-"
            /\ m["index"] \in PlaceholderRows => m["Country"] = "Unknown"
    /\ (dash_master # None /\ upload # None) =>
         \A m \in dash_master.rows :
            /\ m["Country"] # "-0-"
            /\ m["index"] \in PlaceholderRows => m["Country"] = "Unknown"

\* C12: for a master table with zero rows and the required columns the
\* pipeline does not fail and returns tables without rows, and
\* compute_kpis_kris over the resulting Country Metrics table does not fail and
\* returns Total Distinct Entities 0, Top SDN Concentration 0, Critical Risk
\* Jurisdictions 0 and Non-Individual Entity Ratio '0%'.
EmptyMaster == upload.rows = {} /\ BaseColumns \subseteq upload.columns

C12_EmptyMasterGivesZeros ==
    EmptyMaster =>
        /\ pc # "failed"
        /\ pc = "loaded" =>
              /\ master_df.rows = {}
              /\ aggregated_df.rows = {}
        /\ metrics_df # None =>
              /\ ~IsError(metrics_df)
              /\ metrics_df.rows = {}
              /\ metrics_df.columns = MetricsColumns
        /\ (kpi_arg # None /\ kpi_arg.columns = MetricsColumns) =>
              /\ ~IsError(kpi_out)
              /\ kpi_out.kpis["Total Distinct Entities"] = 0
              /\ kpi_out.kpis["Top SDN Concentration"] = 0
              /\ kpi_out.kris["Critical Risk Jurisdictions"] = 0
              /\ kpi_out.kris["Non-Individual Entity Ratio"].text = "0%"
              /\ kpi_out.grouped.rows = {}

C12_Witness ==
    /\ EmptyMaster
    /\ pc = "loaded"
    /\ metrics_df.rows = {}
    /\ kpi_arg # None
    /\ kpi_arg.columns = MetricsColumns
    /\ kpi_out.kpis["Total Distinct Entities"] = 0

\* C15: each aggregation function (compute_country_risk_metrics,
\* compute_kpis_kris, both prepare_pivot_data), called on a table that lacks a
\* column it requires, ends in an error that names a missing column and returns
\* no table.
MissingOf(required, df) == required \ df.columns

NamesMissing(out, required, df) ==
    MissingOf(required, df) # {} =>
        /\ IsError(out)
        /\ out.column \in MissingOf(required, df)

C15_MissingColumnIsNamed ==
    /\ (pc = "calls" /\ metrics_df # None) =>
          NamesMissing(metrics_df, {"ent_num", "SDN_Type", "Country"}, upload)
    /\ kpi_arg # None =>
          NamesMissing(kpi_out, KpiColumns, kpi_arg)
    /\ pv_pivot # None =>
          NamesMissing(pv_pivot.out, {"Country", "Sanctions Program", "ent_num"}, Arg(pv_pivot.arg))
    /\ dp_pivot # None =>
          NamesMissing(dp_pivot.out, {"ent_num", "Sanctions Program", "Country"}, Arg(dp_pivot.arg))

C15_Witness ==
    /\ pc = "calls"
    /\ upload.rows # {}
    /\ "Sanctions Program" \notin upload.columns
    /\ "SDN_Type" \in upload.columns
    /\ metrics_df # None /\ ~IsError(metrics_df)
    /\ kpi_arg # None /\ IsError(kpi_out) /\ kpi_out.column = "Distinct Non-Individuals"
    /\ pv_pivot # None /\ IsError(pv_pivot.out) /\ pv_pivot.out.column = "Sanctions Program"
    /\ dp_pivot # None /\ IsError(dp_pivot.out) /\ dp_pivot.out.column = "Sanctions Program"

\* C13: without an override table, when the SDN source is absent or cannot be
\* read, run_ofac_data_pipeline returns before any join or aggregation, with
\* no metrics, aggregated or master table (None, None, None) and without
\* raising, whatever the address and map sources are.
SourcesRun == sources # None /\ pc \in {"returned", "raised"}

C13_NoSdnNoTables ==
    (SourcesRun /\ sources.sdn_file.kind # "csv") =>
        /\ pc = "returned"
        /\ joined_df = None
        /\ metrics_df = None
        /\ aggregated_df = None
        /\ master_df = None

C13_Witness ==
    /\ SourcesRun
    /\ sources.sdn_file.kind = "unreadable"
    /\ sources.add_file.kind = "csv"
    /\ sources.map_file.kind = "csv"
    /\ pc = "returned"
    /\ master_df = None

\* C14: in the join step, when the address source is absent or either table
\* lacks ent_num the master table is the entity table unchanged; otherwise it
\* is the left outer join on ent_num: every entity row is kept, once for each
\* of its addresses, and the set of entity identifiers of the master table
\* equals that of the entity table.
EntIds(df) == {r["ent_num"] : r \in df.rows}

C14_JoinKeepsEntities ==
    (SourcesRun /\ sources.sdn_file.kind = "csv") =>
        LET sdn_df == sources.sdn_file.table
            add_file == sources.add_file
        IN  IF add_file.kind # "csv"
               \/ "ent_num" \notin sdn_df.columns
               \/ "ent_num" \notin add_file.table.columns
            THEN joined_df = sdn_df
            ELSE /\ EntIds(joined_df) = EntIds(sdn_df)
                 /\ \A l \in sdn_df.rows :
                       LET n == Cardinality({a \in add_file.table.rows :
                                                a["ent_num"] = l["ent_num"]})
                       IN  Cardinality({j \in joined_df.rows :
                                \A c \in {"ent_num", "SDN_Type", "Sanctions Program"} :
                                    j[c] = l[c]})
                             = IF n = 0 THEN 1 ELSE n
                 /\ pc = "returned" => EntIds(master_df) = EntIds(sdn_df)

C14_Witness ==
    /\ SourcesRun
    /\ pc = "returned"
    /\ sources.sdn_file.kind = "csv"
    /\ sources.add_file.kind = "csv"
    /\ joined_df # sources.sdn_file.table
    /\ Cardinality(joined_df.rows) = 3
    /\ EntIds(joined_df) = {1, 2}
    /\ \E j \in joined_df.rows : j["ent_num"] = 2 /\ j["Address"] = NaN
    /\ Cardinality(master_df.rows) = 3

VisualsDone == pc \in {"visuals", "toplists", "filtered", "pivot"}
ListsDone == pc \in {"toplists", "filtered", "pivot"}
FilterDone == pc \in {"filtered", "pivot"}

\* C17: a filter with a non-empty selection keeps exactly the rows whose value
\* is in the selection and with an empty selection keeps every row: df_vis is
\* the Country Metrics rows of the selected countries (all rows when nothing is
\* selected), ranked by Total Distinct Entities and truncated to N, and the
\* filtered master table holds exactly the master rows whose country and
\* program are in the lists given (every row for an empty list).
KeptMetrics ==
    {r \in metrics_df.rows :
        selected_countries = <<>> \/ r["Country"] \in Range(selected_countries)}

C17_FilterKeepsSelection ==
    /\ VisualsDone =>
         /\ Range(df_vis) \subseteq KeptMetrics
         /\ Cardinality(Range(df_vis)) = Len(df_vis)
         /\ Len(df_vis) = IF top_n_country < Cardinality(KeptMetrics)
                          THEN top_n_country ELSE Cardinality(KeptMetrics)
         /\ \A i, j \in DOMAIN df_vis :
               i < j => df_vis[i]["Total Distinct Entities"] >= df_vis[j]["Total Distinct Entities"]
         /\ \A r \in KeptMetrics \ Range(df_vis), q \in Range(df_vis) :
               r["Total Distinct Entities"] <= q["Total Distinct Entities"]
    /\ FilterDone =>
         filtered_master_df.rows =
            {r \in dash_master.rows :
                /\ chosen_countries = <<>> \/ r["Country"] \in Range(chosen_countries)
                /\ chosen_programs = <<>> \/ r["Sanctions Program"] \in Range(chosen_programs)}

C17_Witness ==
    /\ FilterDone
    /\ selected_countries = <<>>
    /\ Cardinality(metrics_df.rows) = 6
    /\ Len(df_vis) = 5
    /\ selected_programs = <<"CHINA", "RUSSIA">>
    /\ chosen_programs # <<>>
    /\ filtered_master_df.rows # {}
    /\ filtered_master_df.rows # dash_master.rows

\* C18: for countries and for programs, when the selection is non-empty and is
\* not the full option list the chosen list is the selection intersected with
\* the Top-N list if that is non-empty and the selection itself otherwise, and
\* it is not empty; when the selection is empty or the full list the chosen
\* list is the Top-N list.
ChosenAsClaimed(selected, options, top, chosen) ==
    IF selected # <<>> /\ selected # options
    THEN /\ chosen # <<>>
         /\ IF Range(selected) \cap Range(top) # {}
            THEN Range(chosen) = Range(selected) \cap Range(top)
            ELSE chosen = selected
    ELSE chosen = top

C18_ChosenLists ==
    FilterDone =>
        /\ ChosenAsClaimed(selected_countries, country_options(metrics_df),
                           top_countries, chosen_countries)
        /\ ChosenAsClaimed(selected_programs, program_options(dash_master),
                           top_programs, chosen_programs)

C18_Witness ==
    /\ FilterDone
    /\ Len(selected_countries) = 1
    /\ Range(selected_countries) \cap Range(top_countries) = {}
    /\ chosen_countries = selected_countries
    /\ Len(selected_programs) = 2
    /\ Len(chosen_programs) = 1

\* a selection made by hand: not empty and not the full option list
ExplicitCountries ==
    selected_countries # <<>> /\ selected_countries # country_options(metrics_df)
ExplicitPrograms ==
    selected_programs # <<>> /\ selected_programs # program_options(dash_master)

\* C19 as stated: whenever the user has made an explicit non-empty country or
\* program selection whose values occur in the master table, the filtered
\* master table given to the program pivot is not empty.
C19_FilteredMasterNotEmpty ==
    (FilterDone /\ (ExplicitCountries \/ ExplicitPrograms)
        /\ Range(selected_countries) \subseteq {r["Country"] : r \in dash_master.rows}
        /\ Range(selected_programs) \subseteq {r["Sanctions Program"] : r \in dash_master.rows})
      => filtered_master_df.rows # {}

\* C20: every Top-N operation returns the N rows with the largest metric in
\* descending order, rows with equal metrics in their original order: df_vis,
\* the Top-N country and program lists and the pivot table's first top_n rows;
\* so when nothing narrows the countries the countries of df_vis are the Top-N
\* country list.
StableTop(rows, n, col) == head(StableDesc(rows, col), n)

ProgramTotalsSeq ==
    LET g == GroupNunique(dash_master.rows, "Sanctions Program", "ent_num")
        names == sorted(DOMAIN g)
    IN  [i \in 1..Len(names) |->
            ("Sanctions Program" :> names[i]) @@ ("Total Distinct Entities" :> g[names[i]])]

C20_TopNStable ==
    /\ VisualsDone =>
         df_vis = StableTop(SelectSeq(MetricsSeq(metrics_df), LAMBDA r : r \in KeptMetrics),
                            top_n_country, "Total Distinct Entities")
    /\ ListsDone =>
         /\ top_countries = tolist(StableTop(MetricsSeq(metrics_df), top_n_country,
                                             "Total Distinct Entities"), "Country")
         /\ top_programs = tolist(StableTop(ProgramTotalsSeq, top_n_program,
                                            "Total Distinct Entities"), "Sanctions Program")
         /\ KeptMetrics = metrics_df.rows =>
               Range(tolist(df_vis, "Country")) = Range(top_countries)
    /\ pc = "pivot" =>
         top_n_df = StableTop(PivotSeq(pv_pivot.out), top_n, "Total_SDNs")

\* C30: in every Country Metrics row, max(Distinct Individuals, Distinct
\* Non-Individuals) <= Total Distinct Entities <= Distinct Individuals +
\* Distinct Non-Individuals, a master row with a missing SDN_Type or a type
\* other than case-insensitive 'individual' counting as non-individual; hence
\* the Non-Individual Entity Ratio never exceeds 100%.
ClaimedNonIndividual(m) ==
    m["SDN_Type"] = NaN \/ StrLower(m["SDN_Type"]) # "individual"

ClaimedNonIndividualEnts(c) ==
    {m["ent_num"] : m \in {x \in MasterRowsOf(c) : ClaimedNonIndividual(x)}}

Max2(a, b) == IF a >= b THEN a ELSE b

C30_TotalBetweenMaxAndSum ==
    /\ MetricsReady =>
          \A r \in metrics_df.rows :
              /\ r["Distinct Non-Individuals"]
                    = Cardinality(ClaimedNonIndividualEnts(r["Country"]))
              /\ Max2(r["Distinct Individuals"], r["Distinct Non-Individuals"])
                    <= r["Total Distinct Entities"]
              /\ r["Total Distinct Entities"]
                    <= r["Distinct Individuals"] + r["Distinct Non-Individuals"]
    /\ KpisDone =>
          kpi_out.kris["Non-Individual Entity Ratio"].tenths <= 1000

C30_Witness ==
    /\ KpisDone
    /\ kpi_out.kris["Non-Individual Entity Ratio"].tenths \in 1..1000
    /\ \E r \in metrics_df.rows :
          /\ \E m \in MasterRowsOf(r["Country"]) : m["SDN_Type"] = NaN
          /\ r["Total Distinct Entities"]
                < r["Distinct Individuals"] + r["Distinct Non-Individuals"]
          /\ r["Distinct Individuals"] > 0
          /\ r["Distinct Non-Individuals"] > 0

\* the Country Metrics row of Russia computed from the quick-test table
SampleMetrics ==
    upload = sample_df /\ MetricsReady /\ ~IsError(metrics_df)

RussiaRows == {r \in metrics_df.rows : r["Country"] = "Russia"}

\* C26 as stated: for the 10-row sample master table the Country Metrics row
\* for Russia has Total Distinct Entities = 2, Distinct Individuals = 0 and
\* total rating 'Low'.
C26_RussiaNoIndividuals ==
    SampleMetrics =>
        /\ Cardinality(RussiaRows) = 1
        /\ \A r \in RussiaRows :
              /\ r["Total Distinct Entities"] = 2
              /\ r["Distinct Individuals"] = 0
              /\ r["Rating - Personal & Non-Personal"] = "Low"

\* C26 amended: for the 10-row sample master table the Country Metrics row for
\* Russia has Total Distinct Entities = 2, Distinct Individuals = 1 (the first
\* Russia row is typed individual), Distinct Non-Individuals = 1 and total
\* rating 'Low'.
C26_RussiaOneIndividual ==
    SampleMetrics =>
        /\ Cardinality(RussiaRows) = 1
        /\ \A r \in RussiaRows :
              /\ r["Total Distinct Entities"] = 2
              /\ r["Distinct Individuals"] = 1
              /\ r["Distinct Non-Individuals"] = 1
              /\ r["Rating - Personal & Non-Personal"] = "Low"

C26_Witness ==
    /\ SampleMetrics
    /\ pc = "loaded"
    /\ Cardinality(metrics_df.rows) = 8
    /\ Cardinality({m \in master_df.rows : m["SDN_Type"] = "individual"}) = 4
    /\ Cardinality({m \in master_df.rows : m["Country"] = "Russia"}) = 2
    /\ \E m \in master_df.rows : m["Country"] = "Russia" /\ m["SDN_Type"] = "individual"

\* the count-derived path of data_processor.prepare_pivot_data has run
DpCountPath == DpDone /\ "Risk_Level" \in dp_pivot.out.columns

\* C27: in data_processor.prepare_pivot_data, on the count-derived path, every
\* pivot row's Risk_Color is RISK_COLOR_MAP of the tier whose score is the row's
\* Avg_Risk_Score; a group of more than 1000 distinct entities (score 6,
\* Critical) gets the Critical colour, which is not the colour of a High group.
C27_ColorOfScoreTier ==
    DpCountPath =>
        \A r \in dp_pivot.out.rows :
            /\ \E t \in Tiers :
                  /\ RISK_SCORE_MAP[t] * 100 = r["Avg_Risk_Score"]
                  /\ r["Risk_Color"] = RISK_COLOR_MAP[t]
            /\ r["SDN_Count"] > 1000 =>
                  /\ r["Risk_Color"] = RISK_COLOR_MAP["Critical"]
                  /\ r["Risk_Color"] # risk_color(RISK_SCORE_MAP["High"] * 100)

\* compute_kpis_kris was called on a table with all Country Metrics columns
KpisOnMetrics == kpi_arg # None /\ MetricsColumns \subseteq kpi_arg.columns

\* C28: for every table that has the Country Metrics columns compute_kpis_kris
\* returns a grouped view carrying Risk_Level, Risk_Score and Risk_Color: a copy
\* whose Risk_Level is the row's total rating when the table lacks Sanctions
\* Program / SDN_Type, a view grouped by Country, Sanctions Program and SDN_Type
\* when it carries them; neither branch ends in an error.
C28_GroupedViewInBothBranches ==
    KpisOnMetrics =>
        /\ ~IsError(kpi_out)
        /\ {"Risk_Level", "Risk_Score", "Risk_Color"} \subseteq kpi_out.grouped.columns
        /\ \A g \in kpi_out.grouped.rows :
              /\ g["Risk_Score"] = RISK_SCORE_MAP[g["Risk_Level"]]
              /\ g["Risk_Color"] = RISK_COLOR_MAP[g["Risk_Level"]]
        /\ ~({"Sanctions Program", "SDN_Type"} \subseteq kpi_arg.columns) =>
              /\ Cardinality(kpi_out.grouped.rows) = Cardinality(kpi_arg.rows)
              /\ \A g \in kpi_out.grouped.rows :
                    /\ g["Risk_Level"] = g["Rating - Personal & Non-Personal"]
                    /\ \E r \in kpi_arg.rows : \A c \in kpi_arg.columns : g[c] = r[c]
        /\ {"Sanctions Program", "SDN_Type"} \subseteq kpi_arg.columns =>
              /\ {"Country", "Sanctions Program", "SDN_Type"} \subseteq kpi_out.grouped.columns
              /\ \A r \in kpi_arg.rows : \E g \in kpi_out.grouped.rows :
                    /\ g["Country"] = r["Country"]
                    /\ g["Sanctions Program"] = r["Sanctions Program"]
                    /\ g["SDN_Type"] = r["SDN_Type"]

\* the sites that invert a score by nearest match
NearestSites == {"risk_level", "program_risk_label", "score_to_label"}

\* C22: the score-to-tier inversion of a pivot cell's label (app.py and both
\* functions of geo_sdn_risk_map.py) returns the tier whose reference score
\* (1..6) has the smallest absolute difference from the mean score, and at
\* exactly x.5 the lower of the two tiers.
C22_NearestTierLowerOnTie ==
    avg_risk_score # NumNaN =>
        \A site \in DOMAIN labels \cap NearestSites :
            LET t == labels[site]
                d == Abs(RISK_SCORE_MAP[t] * 100 - avg_risk_score)
            IN  /\ t \in Tiers
                /\ \A u \in Tiers : d <= Abs(RISK_SCORE_MAP[u] * 100 - avg_risk_score)
                /\ \A u \in Tiers :
                      Abs(RISK_SCORE_MAP[u] * 100 - avg_risk_score) = d
                          => RISK_SCORE_MAP[t] <= RISK_SCORE_MAP[u]

C22_Witness ==
    /\ avg_risk_score = 250
    /\ NearestSites \subseteq DOMAIN labels
    /\ \A site \in NearestSites : labels[site] = "Medium Low"

\* the sites that label a mean score
LabelSites == NearestSites \cup {"map_risk_score_to_level", "map_score_to_level"}

\* C29: on every mean score in [1, 6] in steps of 0.1 all score-to-label
\* functions (the nearest-match inversion, map_risk_score_to_level and the
\* inner map_score_to_level) return the same tier, the half-integers 1.5, 2.5,
\* 3.5, 4.5, 5.5 included.
C29_LabelFunctionsAgree ==
    (avg_risk_score \in 100..600 /\ avg_risk_score % 10 = 0) =>
        \A a, b \in DOMAIN labels \cap LabelSites : labels[a] = labels[b]

\* C21: filter-and-rank is idempotent: the country filter with selection S
\* followed by the Top-N on Total Distinct Entities, applied to its own output
\* with the same S and N, returns the same table (same rows in the same order).
C21_FilterRankIdempotent ==
    pc = "again" => df_vis_again = df_vis

C21_Witness ==
    /\ pc = "again"
    /\ df_vis_again = df_vis
    /\ selected_countries # <<>>
    /\ Len(df_vis) = top_n_country
    /\ \E r \in metrics_df.rows :
          /\ r \notin Range(df_vis)
          /\ r["Country"] \in Range(selected_countries)
          /\ r["Total Distinct Entities"] = df_vis[Len(df_vis)]["Total Distinct Entities"]

\* the Program Pivot aggregation of the request ended in an error
PivotFailed == pv_pivot_df # None /\ IsError(pv_pivot_df)

\* C23: a failure of the Program Pivot aggregation is isolated: in a request
\* where it fails the KPI / KRI summary and the Country Metrics visuals are
\* delivered, the request is not aborted and goes on to deliver the report.
C23_PivotFailureIsIsolated ==
    PivotFailed =>
        /\ {"kpis", "charts"} \subseteq rendered
        /\ pc # "aborted"
        /\ pc = "reported" => "report" \in rendered

\* a direct call has returned a table
FrameReturned == frame # None /\ frame.raised = None

\* the two early returns that hand back the argument itself
EarlyReturn ==
    \/ frame.fn = "clean_invalid_countries" /\ "Country" \notin upload.columns
    \/ frame.fn = "add_risk_level_and_colors" /\ "Avg_Risk_Score" \notin upload.columns

\* C24 as stated: after clean_invalid_countries, compute_country_risk_metrics,
\* compute_kpis_kris, either prepare_pivot_data, add_risk_level_and_colors or
\* prepare_filtered_master returns, its input table has the same rows, columns
\* and values as before the call, and the result is a separate table.
C24_InputKeptResultSeparate ==
    FrameReturned =>
        /\ heap[frame.arg] = upload
        /\ frame.ret # frame.arg

\* C24 amended: after any of the seven functions returns or raises, its input
\* table has the same rows, columns and values as before the call; the result
\* is a separate table, except that clean_invalid_countries on a table without
\* a Country column and add_risk_level_and_colors on a table without
\* Avg_Risk_Score return the input table itself.
C24_InputKept ==
    frame # None =>
        /\ heap[frame.arg] = upload
        /\ FrameReturned => (frame.ret = frame.arg <=> EarlyReturn)

C24_Witness ==
    /\ FrameReturned
    /\ frame.fn = "clean_invalid_countries"
    /\ frame.ret # frame.arg
    /\ heap[frame.ret] # heap[frame.arg]
    /\ \E r \in heap[frame.arg].rows : r["Country"] = "-0-"
    /\ \E r \in heap[frame.ret].rows : r["Country"] = "Unknown SDN"

\* C25: memoization never changes results: after any sequence of requests
\* interleaved with changes of the default source files, the tables a request
\* gets from the cached load_metrics (in tab 1 and in the tab 3 reload) are the
\* ones an uncached pipeline run over the current inputs returns; a failed load
\* is not served from the cache once the input is loadable.
C25_CachedEqualsUncached ==
    pc = "served" =>
        LET fresh == load_metrics_uncached(session.uploaded, session.use_defaults, disk)
        IN  /\ served.tab1 = fresh
            /\ served.tab3 # None => served.tab3 = fresh

====
